---- MODULE Spec2Model ----
(***************************************************************************)
(* Model of the kafka-config tflint ruleset: the msk_topic_config rule     *)
(* (replication factor, compression, cleanup policy, retention / tiered    *)
(* storage / local retention) and the msk_topic_config_comments rule       *)
(* (human readable comments next to millisecond and byte values).          *)
(*                                                                         *)
(* The sources hold two builds of the plugin.  In the first one the config *)
(* rule checks the comment of retention.ms itself                          *)
(* (validateConfigValuesInComments) and there is no comments rule.  In the *)
(* second one, the build of main, the config rule leaves comments alone    *)
(* and the comments rule is registered after it.  A run of tflint is one   *)
(* pass of the enabled rules of one build over the text, either reporting  *)
(* only or with --fix; with --fix the changes of a rule are formatted and  *)
(* applied when its Check returns, before the next rule runs.              *)
(*                                                                         *)
(* One kafka_topic resource is followed through the pass; the topics the   *)
(* rules visit before it are in other files.  Its text is kept as a        *)
(* record: the label of the block, the `name` and `replication_factor`     *)
(* attributes with the blanks in front of their `=`, and the lines of the  *)
(* `config = { ... }` object, one property or one `#` comment per line.    *)
(* Text (values, comments) is a sequence of one-character strings, so that *)
(* strconv.Atoi, strings.TrimSpace, FormatFloat and the text splices of    *)
(* the fixer are computed character by character.  Source positions are    *)
(* hcl ranges: start inclusive, end exclusive.                             *)
(***************************************************************************)
EXTENDS Integers, Sequences, FiniteSets, TLC

VARIABLES
    topic,      \* the source text of the kafka_topic resource being linted
    build,      \* which build of the plugin runs
    enabled,    \* the enabled rules of the build, in registration order
    fixing,     \* TRUE when the run applies the Fixes (tflint --fix)
    pc,         \* the step of the pass that runs next
    issues,     \* runner.Issues: the Issues emitted so far in this pass
    calls,      \* the validate* functions entered so far in this pass
    cleanupPolicy, \* the value getAndValidateCleanupPolicyValue returned
    err,        \* TRUE once a rule's Check returned a Go error
    pass,       \* 1 for the first run, 2.. for a run over fixed text
    applied,    \* the Issues whose Fixes made the text this pass started from
    others,     \* the kafka_topic resources of the module linted before `topic`
    otherIssues \* runner.Issues: the Issues emitted for `others` in this pass

vars == <<topic, build, enabled, fixing, pc, issues, calls, cleanupPolicy, err,
          pass, applied, others, otherIssues>>

----------------------------------------------------------------------------
(* Text helpers.                                                           *)

\* unicode.IsSpace: '\t', '\n', '\v', '\f', '\r', ' ', U+0085 (NEL), U+00A0
\* (NBSP) and, beyond Latin-1, the characters of Unicode's White_Space
\* property: U+1680, U+2000 to U+200A, U+2028, U+2029, U+202F, U+205F and
\* U+3000 (U+200B is none). The characters that have no escape
\* here are written as tokens such as "\\v" and "\\u00A0"
IsSpace(c) ==
    c \in {" ", "\n", "\t", "\r", "\f", "\\v", "\\u0085", "\\u00A0", "\\u1680",
           "\\u2000", "\\u2001", "\\u2002", "\\u2003", "\\u2004", "\\u2005",
           "\\u2006", "\\u2007", "\\u2008", "\\u2009", "\\u200A", "\\u2028",
           "\\u2029", "\\u202F", "\\u205F", "\\u3000"}

RECURSIVE TrimLeft(_)
TrimLeft(s) == IF s # <<>> /\ IsSpace(Head(s)) THEN TrimLeft(Tail(s)) ELSE s

RECURSIVE TrimRight(_)
TrimRight(s) ==
    IF s # <<>> /\ IsSpace(s[Len(s)]) THEN TrimRight(SubSeq(s, 1, Len(s) - 1)) ELSE s

\* strings.TrimSpace
TrimSpace(s) == TrimRight(TrimLeft(s))

DigitChars == <<"0", "1", "2", "3", "4", "5", "6", "7", "8", "9">>

IsDigit(c) == \E i \in 1..10 : DigitChars[i] = c

DigitVal(c) == (CHOOSE i \in 1..10 : DigitChars[i] = c) - 1

(* A Go int is 64 bits wide and the integers of TLC are 32 bits wide, so a *)
(* natural number of any size is kept as its digits in a base, the most    *)
(* significant first and <<>> for 0: decimal digits for a parsed integer,  *)
(* binary digits for the mantissa of a float64.                            *)

\* without its leading zeros
Normal(ds) ==
    IF \A i \in 1..Len(ds) : ds[i] = 0 THEN <<>>
    ELSE SubSeq(ds, CHOOSE i \in 1..Len(ds) :
                        ds[i] # 0 /\ \A j \in 1..(i - 1) : ds[j] = 0,
                Len(ds))

\* without its trailing zeros
Odd(ds) ==
    IF \A i \in 1..Len(ds) : ds[i] = 0 THEN <<>>
    ELSE SubSeq(ds, 1, CHOOSE i \in 1..Len(ds) :
                           ds[i] # 0 /\ \A j \in (i + 1)..Len(ds) : ds[j] = 0)

Zeros(n) == [i \in 1..n |-> 0]

\* a <= b
NatLe(a, b) ==
    \/ Len(a) < Len(b)
    \/ /\ Len(a) = Len(b)
       /\ \/ a = b
          \/ \E i \in 1..Len(a) : a[i] < b[i] /\ \A j \in 1..(i - 1) : a[j] = b[j]

\* the digits of a native natural number
NatDigits(n, base) ==
    LET len == CHOOSE l \in 0..31 :
                   IF l = 0 THEN n = 0 ELSE (n \div base ^ (l - 1)) \in 1..(base - 1)
    IN  [i \in 1..len |-> (n \div base ^ (len - i)) % base]

RECURSIVE DigitsToNat(_, _, _)
\* n followed by the few digits ds, as a native number: the digits are
\* taken half by half
DigitsToNat(ds, base, n) ==
    IF ds = <<>> THEN n
    ELSE IF Len(ds) = 1 THEN base * n + ds[1]
    ELSE DigitsToNat(SubSeq(ds, 1, Len(ds) \div 2), base, n)
             * base ^ (Len(ds) - Len(ds) \div 2)
         + DigitsToNat(SubSeq(ds, Len(ds) \div 2 + 1, Len(ds)), base, 0)

DivJoin(left, right) == [quot |-> left.quot \o right.quot, rem |-> right.rem]

RECURSIVE DivRun(_, _, _, _)
DivRight(left, ds, base, d) == DivJoin(left, DivRun(ds, base, d, left.rem))

DivDigit(cur, d) == [quot |-> <<cur \div d>>, rem |-> cur % d]

\* long division, digit by digit from the most significant, the digits
\* taken half by half
DivRun(ds, base, d, rem) ==
    IF ds = <<>> THEN [quot |-> <<>>, rem |-> rem]
    ELSE IF Len(ds) = 1 THEN DivDigit(rem * base + ds[1], d)
    ELSE DivRight(DivRun(SubSeq(ds, 1, Len(ds) \div 2), base, d, rem),
                  SubSeq(ds, Len(ds) \div 2 + 1, Len(ds)), base, d)

DivResult(r) == [quot |-> Normal(r.quot), rem |-> r.rem]

\* ds / d for a native d: the quotient and the remainder
DivSmall(ds, base, d) ==
    IF d = 1 THEN [quot |-> Normal(ds), rem |-> 0]
    ELSE DivResult(DivRun(ds, base, d, 0))

Reverse(ds) == [i \in 1..Len(ds) |-> ds[Len(ds) + 1 - i]]

MulJoin(low, high) == [prod |-> low.prod \o high.prod, carry |-> high.carry]

RECURSIVE MulRun(_, _, _, _)
MulHigh(low, ds, base, k) == MulJoin(low, MulRun(ds, base, k, low.carry))

MulDigit(cur, base) == [prod |-> <<cur % base>>, carry |-> cur \div base]

\* long multiplication, digit by digit; ds and the product have the least
\* significant digit first
MulRun(ds, base, k, carry) ==
    IF ds = <<>> THEN [prod |-> <<>>, carry |-> carry]
    ELSE IF Len(ds) = 1 THEN MulDigit(ds[1] * k + carry, base)
    ELSE MulHigh(MulRun(SubSeq(ds, 1, Len(ds) \div 2), base, k, carry),
                 SubSeq(ds, Len(ds) \div 2 + 1, Len(ds)), base, k)

MulResult(r, base) == Normal(NatDigits(r.carry, base) \o Reverse(r.prod))

\* ds * k + carry, for native k and carry
MulSmall(ds, base, k, carry) ==
    IF ds = <<>> THEN NatDigits(carry, base)
    ELSE MulResult(MulRun(Reverse(ds), base, k, carry), base)

\* the digits are converted in runs whose value fits a native integer
Chunk(from) == IF from = 2 THEN 24 ELSE 8

RECURSIVE Convert(_, _, _)
\* the digits in base `to` of the number whose digits in base `from` are ds
Convert(ds, from, to) ==
    IF Len(ds) <= Chunk(from) THEN NatDigits(DigitsToNat(ds, from, 0), to)
    ELSE MulSmall(Convert(SubSeq(ds, 1, Len(ds) - Chunk(from)), from, to), to,
                  from ^ Chunk(from),
                  DigitsToNat(SubSeq(ds, Len(ds) - Chunk(from) + 1, Len(ds)), from, 0))

\* the binary digits of a number given by its decimal digits, and back
ToBits(dec) == Convert(dec, 10, 2)
BitsToDecimal(bits) == Convert(bits, 2, 10)

\* a Go int: sign and magnitude; -0 is 0
GoInt(neg, mag) == [neg |-> neg /\ mag # <<>>, mag |-> mag]

IntOfNat(n) == GoInt(FALSE, NatDigits(n, 10))

\* math.MaxInt64 and the magnitude of math.MinInt64
maxInt64 == <<9, 2, 2, 3, 3, 7, 2, 0, 3, 6, 8, 5, 4, 7, 7, 5, 8, 0, 7>>
minInt64 == <<9, 2, 2, 3, 3, 7, 2, 0, 3, 6, 8, 5, 4, 7, 7, 5, 8, 0, 8>>

\* a >= k, for a native k >= 0
IntGeNat(a, k) == ~a.neg /\ NatLe(NatDigits(k, 10), a.mag)

\* a / k of Go, for a native k > 0: the quotient is truncated toward zero
IntDivNat(a, k) == GoInt(a.neg, DivSmall(a.mag, 10, k).quot)

\* fmt %d
IntText(a) ==
    (IF a.neg THEN <<"-">> ELSE <<>>)
        \o (IF a.mag = <<>> THEN <<"0">>
            ELSE [i \in 1..Len(a.mag) |-> DigitChars[a.mag[i] + 1]])

\* strconv.Itoa of a native natural number
Itoa(n) == IntText(IntOfNat(n))

\* strconv.Atoi: an optional sign, then one or more decimal digits; a value
\* outside of the 64 bits of an int is an error
Atoi(s) ==
    LET signed == s # <<>> /\ Head(s) \in {"-", "+"}
        digits == IF signed THEN Tail(s) ELSE s
        neg == signed /\ Head(s) = "-"
        mag == Normal([i \in 1..Len(digits) |-> DigitVal(digits[i])])
    IN  IF digits = <<>> \/ \E i \in 1..Len(digits) : ~IsDigit(digits[i])
        THEN [ok |-> FALSE, val |-> GoInt(FALSE, <<>>)]
        ELSE IF ~NatLe(mag, IF neg THEN minInt64 ELSE maxInt64)
        THEN [ok |-> FALSE, val |-> GoInt(FALSE, <<>>)]
        ELSE [ok |-> TRUE, val |-> GoInt(neg, mag)]

(* A float64 that is not NaN or infinite: (-1)^neg * m * 2^e, the mantissa *)
(* m in binary digits and odd, so that equal floats are equal records.     *)
Float(neg, m, e) ==
    LET odd == Odd(m)
    IN  [neg |-> neg, m |-> odd, e |-> IF odd = <<>> THEN 0 ELSE e + Len(m) - Len(odd)]

mantissaBits == 53

\* the float64 nearest to m * 2^e (plus a fraction of 2^e when `sticky`),
\* ties to the even mantissa; m has no leading zeros
Round53(neg, m, e, sticky) ==
    IF Len(m) <= mantissaBits THEN Float(neg, m, e)
    ELSE LET keep == SubSeq(m, 1, mantissaBits)
             rest == sticky \/ \E i \in (mantissaBits + 2)..Len(m) : m[i] = 1
             up == m[mantissaBits + 1] = 1 /\ (rest \/ keep[mantissaBits] = 1)
         IN  Float(neg, IF up THEN MulSmall(keep, 2, 1, 1) ELSE keep,
                   e + Len(m) - mantissaBits)

\* float64(i)
FloatOfInt(i) == Round53(i.neg, ToBits(i.mag), 0, FALSE)

\* f / g, for a divisor whose mantissa is a native number: the quotient is
\* computed to two more digits than a mantissa holds, then rounded
FloatDiv(f, g) ==
    IF f.m = <<>> THEN Float(f.neg # g.neg, <<>>, 0)
    ELSE IF g.m = <<1>> THEN Float(f.neg # g.neg, f.m, f.e - g.e)
    ELSE LET s == mantissaBits + 2 + Len(g.m)
             q == DivSmall(f.m \o Zeros(s), 2, DigitsToNat(g.m, 2, 0))
         IN  Round53(f.neg # g.neg, q.quot, f.e - s - g.e, q.rem # 0)

\* f * k, for a native k
FloatMul(f, k) ==
    IF f.m = <<>> THEN f ELSE Round53(f.neg, MulSmall(f.m, 2, k, 0), f.e, FALSE)

\* math.Round: to the nearest integer, halves away from zero
MathRound(f) ==
    IF f.e >= 0 THEN f
    ELSE IF -f.e > Len(f.m) THEN Float(f.neg, <<>>, 0)
    ELSE LET whole == SubSeq(f.m, 1, Len(f.m) + f.e)
         IN  Float(f.neg,
                   IF f.m[Len(f.m) + f.e + 1] = 1 THEN MulSmall(whole, 2, 1, 1)
                   ELSE whole,
                   0)

\* f >= 1 and f == 1
FloatGe1(f) == ~f.neg /\ f.m # <<>> /\ Len(f.m) + f.e >= 1
FloatEq1(f) == f = Float(FALSE, <<1>>, 0)

DecimalText(dec) ==
    IF dec = <<>> THEN <<"0">> ELSE [i \in 1..Len(dec) |-> DigitChars[dec[i] + 1]]

\* dec cut to its first Len(dec) - k digits, rounded down or up
CutInteger(dec, k, up) ==
    (IF up THEN MulSmall(SubSeq(dec, 1, Len(dec) - k), 10, 1, 1)
     ELSE SubSeq(dec, 1, Len(dec) - k)) \o Zeros(k)

ConvertsBack(f, dec) == FloatOfInt(GoInt(FALSE, dec)) = f

\* the multiples of 10^k next to dec (the decimal digits of the integer
\* float f) that convert back to f, the nearer one first
NearInteger(f, dec, k) ==
    LET up == dec[Len(dec) - k + 1] >= 5
    IN  SelectSeq(<<CutInteger(dec, k, up), CutInteger(dec, k, ~up)>>,
                  LAMBDA d : ConvertsBack(f, d))

\* the decimal of `near` with the most digits cut, dec when there is none
FewestDigits(dec, near) ==
    LET short == {k \in DOMAIN near : near[k] # <<>>}
    IN  IF short = {} THEN dec
        ELSE near[CHOOSE k \in short : \A j \in short : j <= k][1]

\* the decimal with the fewest significant digits that converts back to f
ShortestInteger(f, dec) ==
    FewestDigits(dec, [k \in 1..(Len(dec) - 1) |-> NearInteger(f, dec, k)])

\* the digits `padded` with a point before the last j of them
PointBefore(padded, j) ==
    DecimalText(Normal(SubSeq(padded, 1, Len(padded) - j))) \o <<".">>
        \o [i \in 1..j |-> DigitChars[padded[Len(padded) - j + i] + 1]]

\* the integer dec / 10^j as a decimal fraction
FractionText(dec, j) == PointBefore(Zeros(j + 1 - Len(dec)) \o dec, j)

RECURSIVE ShortestFraction(_, _, _, _)
\* `near`, the integer nearest to f * 10^j, when near / 10^j is f, else the
\* search goes on with one more digit
FractionOrLonger(f, scaled, pow, j, near) ==
    IF FloatDiv(near, pow) = f
    THEN FractionText(BitsToDecimal(near.m \o Zeros(near.e)), j)
    ELSE ShortestFraction(f, Float(FALSE, MulSmall(scaled.m, 2, 10, 0), scaled.e),
                          FloatMul(pow, 10), j + 1)

\* the decimal with the fewest digits after the point that converts back to
\* the float f: `scaled` is f * 10^j and `pow` is 10^j
ShortestFraction(f, scaled, pow, j) ==
    FractionOrLonger(f, scaled, pow, j, MathRound(scaled))

\* the digits of the float f >= 0
FormatMagnitude(f) ==
    IF f.e < 0
    THEN ShortestFraction(f, Float(FALSE, MulSmall(f.m, 2, 10, 0), f.e),
                          Float(FALSE, <<1, 0, 1>>, 1), 1)
    ELSE IF Len(f.m) + f.e <= mantissaBits
    THEN DecimalText(BitsToDecimal(f.m \o Zeros(f.e)))
    ELSE DecimalText(ShortestInteger(f, BitsToDecimal(f.m \o Zeros(f.e))))

\* strconv.FormatFloat(f, 'f', -1, 64): the shortest decimal that converts
\* back to f
FormatFloat(f) ==
    (IF f.neg THEN <<"-">> ELSE <<>>) \o FormatMagnitude([f EXCEPT !.neg = FALSE])

----------------------------------------------------------------------------
(* Program constants.                                                      *)

replicationFactorVal == 3
replFactorAttrName == "replication_factor"

compressionTypeKey == "compression.type"
compressionTypeVal == <<"z", "s", "t", "d">>

cleanupPolicyKey == "cleanup.policy"
cleanupPolicyDelete == <<"d", "e", "l", "e", "t", "e">>
cleanupPolicyCompact == <<"c", "o", "m", "p", "a", "c", "t">>
cleanupPolicyDefault == cleanupPolicyDelete
cleanupPolicyValidValues == <<cleanupPolicyDelete, cleanupPolicyCompact>>

retentionTimeAttr == "retention.ms"
millisInOneHour == 60 * 60 * 1000
millisInOneDay == 24 * millisInOneHour
tieredStorageThresholdInDays == 3
tieredStorageEnableAttr == "remote.storage.enable"
tieredStorageEnabledValue == <<"t", "r", "u", "e">>
localRetentionTimeAttr == "local.retention.ms"
localRetentionTimeInDaysDefault == 1

\* fmt.Sprintf(`"%s" = "%s"`, key, value)
KeyValueText(key, value) == <<"\"", key, "\" = \"">> \o value \o <<"\"">>

replFactorFix == <<replFactorAttrName, " = ">> \o Itoa(replicationFactorVal)
compressionTypeFix == KeyValueText(compressionTypeKey, compressionTypeVal)
cleanupPolicyDefaultFix == KeyValueText(cleanupPolicyKey, cleanupPolicyDefault)
retentionTimeDefTemplate == KeyValueText(retentionTimeAttr, <<"?", "?", "?">>)
\* variant: the inserted property switches tiered storage off
enableTieredStorage_Off == KeyValueText(tieredStorageEnableAttr, <<"f", "a", "l", "s", "e">>)

enableTieredStorage == KeyValueText(tieredStorageEnableAttr, tieredStorageEnabledValue)
localRetentionTimeFix ==
    <<"#", " ", "k", "e", "e", "p", " ", "d", "a", "t", "a", " ", "i", "n", " ", "h", "o", "t", " ", "s", "t", "o", "r", "a", "g", "e", " ", "f", "o", "r", " ">> \o Itoa(localRetentionTimeInDaysDefault)
        \o <<" ", "d", "a", "y", "\n", " ", " ", " ", " ", " ">>
        \o KeyValueText(localRetentionTimeAttr,
                        Itoa(localRetentionTimeInDaysDefault * millisInOneDay))

----------------------------------------------------------------------------
(* Source layout of the resource (the parser's view of the text).          *)
(*   line 1: empty,  line 2: resource "kafka_topic" "..." {                *)
(*   then `name`, `replication_factor`, `config = {`, the config lines,    *)
(*   the closing brace of the config object.                               *)

Range(sl, sc, el, ec) == [sl |-> sl, sc |-> sc, el |-> el, ec |-> ec]
NoRange == Range(0, 0, 0, 0)

KeyLen(key) ==
    CASE key = "retention.ms" -> 12
      [] key = "local.retention.ms" -> 18
      [] key = "remote.storage.enable" -> 21
      [] key = "cleanup.policy" -> 14
      [] key = "compression.type" -> 16
      [] key = "max.compaction.lag.ms" -> 21
      [] key = "max.message.bytes" -> 17
      [] OTHER -> 7

\* the first column of a key or a comment inside the config object
ConfigIndentCol == 5
\* the first column of an attribute of the resource
AttrIndentCol == 3

\* topic.DefRange: `resource "kafka_topic" "<label>"`, the type and the
\* labels of the block
DefRange(t) == Range(t.line, 1, t.line, 26 + Len(t.label))

\* the line of the first resource of a file: the file starts with an empty
\* line, as the texts of the tests do
FirstLine == 2

NameLine(t) == t.line + 1
\* nameAttr.Range: `name`, the blanks in front of `=`, `= `, the quoted name
NameRange(t) ==
    Range(NameLine(t), AttrIndentCol, NameLine(t),
          AttrIndentCol + 4 + t.namePad + 2 + Len(t.name) + 2)

ReplLine(t) == t.line + (IF t.hasName THEN 2 ELSE 1)
\* replFactorAttr.Range: from `replication_factor` to the end of the number
ReplRange(t) ==
    Range(ReplLine(t), AttrIndentCol, ReplLine(t),
          AttrIndentCol + 18 + t.replPad + 2 + Len(Itoa(t.replFactor)))

ConfigLine(t) ==
    t.line + 1 + (IF t.hasName THEN 1 ELSE 0) + (IF t.hasRepl THEN 1 ELSE 0)

\* the source line of the i-th line of the config object
LineOf(t, i) == ConfigLine(t) + i

\* the line of the closing brace of the resource
EndLine(t) == IF t.hasConfig THEN LineOf(t, Len(t.config) + 2) ELSE ConfigLine(t)

\* the resource t in a file where the resources ts stand before it, an
\* empty line between two resources
Below(ts, t) ==
    [t EXCEPT !.line = IF ts = <<>> THEN FirstLine ELSE EndLine(ts[Len(ts)]) + 2]

\* config.Range: from `config` to the closing brace
ConfigRange(t) ==
    Range(ConfigLine(t), AttrIndentCol, LineOf(t, Len(t.config) + 1), 4)

\* config.Expr.StartRange(): the opening brace of the object
ConfigStartRange(t) == Range(ConfigLine(t), 12, ConfigLine(t), 13)

KeyEndCol(ln) == ConfigIndentCol + KeyLen(ln.key) + 2
\* the value starts after the blanks in front of `=`, `=` and one blank
ValStartCol(ln) == KeyEndCol(ln) + ln.pad + 2
ValEndCol(ln) == ValStartCol(ln) + Len(ln.val) + 2

KeyRangeOf(t, i) ==
    Range(LineOf(t, i), ConfigIndentCol, LineOf(t, i), KeyEndCol(t.config[i]))
ValRangeOf(t, i) ==
    Range(LineOf(t, i), ValStartCol(t.config[i]), LineOf(t, i), ValEndCol(t.config[i]))

\* a line of the config object: a property with `pad` blanks in front of
\* its `=`, with or without a trailing comment `gap` columns after its
\* value, or a comment alone on its line
PropLine(key, val) ==
    [kind |-> "prop", key |-> key, pad |-> 1, val |-> val,
     hasTrail |-> FALSE, gap |-> 0, text |-> <<>>]
PropLineWithComment(key, val, gap, text) ==
    [kind |-> "prop", key |-> key, pad |-> 1, val |-> val,
     hasTrail |-> TRUE, gap |-> gap, text |-> text]
CommentLine(text) ==
    [kind |-> "comment", key |-> "", pad |-> 0, val |-> <<>>,
     hasTrail |-> FALSE, gap |-> 0, text |-> text]
\* the line a removed pair leaves behind
BlankLine ==
    [kind |-> "blank", key |-> "", pad |-> 0, val |-> <<>>,
     hasTrail |-> FALSE, gap |-> 0, text |-> <<>>]

----------------------------------------------------------------------------
(* Issues and fixes.                                                       *)

NoFix == [op |-> "none", range |-> NoRange, text |-> <<>>]
InsertTextAfter(range, text) == [op |-> "insert_after", range |-> range, text |-> text]
InsertTextBefore(range, text) == [op |-> "insert_before", range |-> range, text |-> text]
ReplaceText(range, text) == [op |-> "replace", range |-> range, text |-> text]
Remove(range) == [op |-> "remove", range |-> range, text |-> <<>>]

configRule == "msk_topic_config"
commentsRule == "msk_topic_config_comments"

\* runner.EmitIssue / runner.EmitIssueWithFix; `by` is the emitting function
\* and `key` the property the Issue is about
Issue(rule, by, key, message, range, fix) ==
    [rule |-> rule, by |-> by, key |-> key, message |-> message,
     range |-> range, fix |-> fix]

----------------------------------------------------------------------------
(* The attribute index.                                                    *)

ConfigKeys(t) == {t.config[i].key : i \in {j \in 1..Len(t.config) : t.config[j].kind = "prop"}}

\* the pair a key maps to, as the index of its line: a later pair with the
\* same key overwrites an earlier one (res[pk] = pair)
PairOf(t, key) ==
    CHOOSE i \in 1..Len(t.config) :
        /\ t.config[i].kind = "prop" /\ t.config[i].key = key
        /\ \A j \in (i + 1)..Len(t.config) :
              ~(t.config[j].kind = "prop" /\ t.config[j].key = key)

\* constructConfigKeyToPairMap: key -> pair, or an error when a key
\* expression does not decode to a literal string
\* variant: a key that is not a literal string is left out of the index
constructConfigKeyToPairMap_SkipBadKey(t) ==
    [err |-> FALSE, map |-> [key \in ConfigKeys(t) |-> PairOf(t, key)]]

constructConfigKeyToPairMap(t) ==
    IF t.badKey THEN [err |-> TRUE, map |-> <<>>]
    ELSE [err |-> FALSE, map |-> [key \in ConfigKeys(t) |-> PairOf(t, key)]]

Has(m, key) == key \in DOMAIN m
ValueOf(t, m, key) == t.config[m[key]].val
KeyRange(t, m, key) == KeyRangeOf(t, m[key])
ValueRange(t, m, key) == ValRangeOf(t, m[key])

\* variant: the range runs to the end of the line of the value
KeyToValueRange_WholeLine(t, m, key) ==
    Range(KeyRange(t, m, key).sl, KeyRange(t, m, key).sc,
          ValueRange(t, m, key).el + 1, 1)

\* hcl.Range{Start: keyRange.Start, End: pair.Value.Range().End}
KeyToValueRange(t, m, key) ==
    Range(KeyRange(t, m, key).sl, KeyRange(t, m, key).sc,
          ValueRange(t, m, key).el, ValueRange(t, m, key).ec)
----------------------------------------------------------------------------
(* msk_topic_config: replication factor, config attribute, compression.    *)

MissingReplFactorMsg ==
    <<"missing replication_factor: it must be equal to '">>
        \o Itoa(replicationFactorVal) \o <<"'">>

\* a variant that says nothing about a topic that has no name
reportMissingReplicationFactor_NamedOnly(t) ==
    IF ~t.hasName THEN <<>>
    ELSE <<Issue(configRule, "reportMissingReplicationFactor", replFactorAttrName,
                 MissingReplFactorMsg, DefRange(t),
                 InsertTextAfter(NameRange(t), <<"\n">> \o replFactorFix))>>

reportMissingReplicationFactor(t) ==
    IF ~t.hasName
    THEN <<Issue(configRule, "reportMissingReplicationFactor", replFactorAttrName,
                 MissingReplFactorMsg, DefRange(t), NoFix)>>
    ELSE <<Issue(configRule, "reportMissingReplicationFactor", replFactorAttrName,
                 MissingReplFactorMsg, DefRange(t),
                 InsertTextAfter(NameRange(t), <<"\n">> \o replFactorFix))>>

\* a variant that accepts any replication factor that is present
validateReplicationFactor_AnyValue(t) ==
    IF ~t.hasRepl THEN reportMissingReplicationFactor(t) ELSE <<>>

validateReplicationFactor(t) ==
    IF ~t.hasRepl THEN reportMissingReplicationFactor(t)
    ELSE IF t.replFactor # replicationFactorVal
    THEN <<Issue(configRule, "validateReplicationFactor", replFactorAttrName,
                 <<"the replication_factor must be equal to '">>
                     \o Itoa(replicationFactorVal) \o <<"'">>,
                 ReplRange(t), ReplaceText(ReplRange(t), replFactorFix))>>
    ELSE <<>>

validateAndGetConfigAttr(t) ==
    IF ~t.hasConfig
    THEN <<Issue(configRule, "validateAndGetConfigAttr", "config",
                 <<"missing config attribute: the topic configuration must be specified in a config attribute">>,
                 DefRange(t), NoFix)>>
    ELSE <<>>

Quoted(s) == <<"\"">> \o s \o <<"\"">>

\* a variant that only requires the compression type to be present
validateCompressionType_PresenceOnly(t, m) ==
    IF ~Has(m, compressionTypeKey)
    THEN <<Issue(configRule, "validateCompressionType", compressionTypeKey,
                 <<"missing ", compressionTypeKey, ": it must be equal to '">>
                     \o compressionTypeVal \o <<"'">>,
                 ConfigRange(t),
                 InsertTextAfter(ConfigStartRange(t), <<"\n">> \o compressionTypeFix))>>
    ELSE <<>>

validateCompressionType(t, m) ==
    IF ~Has(m, compressionTypeKey)
    THEN <<Issue(configRule, "validateCompressionType", compressionTypeKey,
                 <<"missing ", compressionTypeKey, ": it must be equal to '">>
                     \o compressionTypeVal \o <<"'">>,
                 ConfigRange(t),
                 InsertTextAfter(ConfigStartRange(t), <<"\n">> \o compressionTypeFix))>>
    ELSE IF ValueOf(t, m, compressionTypeKey) # compressionTypeVal
    THEN <<Issue(configRule, "validateCompressionType", compressionTypeKey,
                 <<"the ", compressionTypeKey, " value must be equal to '">>
                     \o compressionTypeVal \o <<"'">>,
                 ValueRange(t, m, compressionTypeKey),
                 ReplaceText(ValueRange(t, m, compressionTypeKey),
                             Quoted(compressionTypeVal)))>>
    ELSE <<>>

----------------------------------------------------------------------------
(* msk_topic_config: cleanup policy.                                       *)

Contains(seq, x) == \E i \in 1..Len(seq) : seq[i] = x

\* variant: an absent cleanup.policy defaults without an Issue
getAndValidateCleanupPolicyValue_SilentDefault(t, m) ==
    IF ~Has(m, cleanupPolicyKey)
    THEN [policy |-> cleanupPolicyDefault, issues |-> <<>>]
    ELSE IF ~Contains(cleanupPolicyValidValues, ValueOf(t, m, cleanupPolicyKey))
    THEN [policy |-> <<>>,
          issues |-> <<Issue(configRule, "getAndValidateCleanupPolicyValue",
                             cleanupPolicyKey,
                             <<"invalid ", cleanupPolicyKey>>,
                             ValueRange(t, m, cleanupPolicyKey), NoFix)>>]
    ELSE [policy |-> ValueOf(t, m, cleanupPolicyKey), issues |-> <<>>]

\* the policy "" is returned for an invalid value
getAndValidateCleanupPolicyValue(t, m) ==
    IF ~Has(m, cleanupPolicyKey)
    THEN [policy |-> cleanupPolicyDefault,
          issues |-> <<Issue(configRule, "getAndValidateCleanupPolicyValue",
                             cleanupPolicyKey,
                             <<"missing ", cleanupPolicyKey, ": using default '">>
                                 \o cleanupPolicyDefault \o <<"'">>,
                             ConfigRange(t),
                             InsertTextAfter(ConfigStartRange(t),
                                             <<"\n">> \o cleanupPolicyDefaultFix))>>]
    ELSE IF ~Contains(cleanupPolicyValidValues, ValueOf(t, m, cleanupPolicyKey))
    THEN [policy |-> <<>>,
          issues |-> <<Issue(configRule, "getAndValidateCleanupPolicyValue",
                             cleanupPolicyKey,
                             <<"invalid ", cleanupPolicyKey, ": it must be one of [">>
                                 \o cleanupPolicyDelete \o <<", ">> \o cleanupPolicyCompact
                                 \o <<"], but currently is '">>
                                 \o ValueOf(t, m, cleanupPolicyKey) \o <<"'">>,
                             ValueRange(t, m, cleanupPolicyKey), NoFix)>>]
    ELSE [policy |-> ValueOf(t, m, cleanupPolicyKey), issues |-> <<>>]

----------------------------------------------------------------------------
(* msk_topic_config: retention time, tiered storage, local retention.      *)

\* val < 0
isInfiniteRetention(val) == val.neg

\* variant: the threshold itself is not a long retention
mustEnableTieredStorage_Exclusive(retentionTime) ==
    \/ IntGeNat(retentionTime, tieredStorageThresholdInDays * millisInOneDay + 1)
    \/ isInfiniteRetention(retentionTime)

mustEnableTieredStorage(retentionTime) ==
    \/ IntGeNat(retentionTime, tieredStorageThresholdInDays * millisInOneDay)
    \/ isInfiniteRetention(retentionTime)

\* variant: a retention time that does not parse counts as 0
getAndValidateRetentionTime_Lenient(t, m) ==
    IF ~Has(m, retentionTimeAttr)
    THEN [ok |-> FALSE, val |-> GoInt(FALSE, <<>>),
          issues |-> <<Issue(configRule, "getAndValidateRetentionTime", retentionTimeAttr,
                             <<retentionTimeAttr,
                               " must be defined on a topic with cleanup policy delete">>,
                             ConfigRange(t),
                             InsertTextAfter(ConfigStartRange(t),
                                             <<"\n">> \o retentionTimeDefTemplate))>>]
    ELSE [ok |-> TRUE, val |-> Atoi(ValueOf(t, m, retentionTimeAttr)).val,
          issues |-> <<>>]

\* returns the parsed retention time, or nil (ok = FALSE) after an Issue
getAndValidateRetentionTime(t, m) ==
    IF ~Has(m, retentionTimeAttr)
    THEN [ok |-> FALSE, val |-> GoInt(FALSE, <<>>),
          issues |-> <<Issue(configRule, "getAndValidateRetentionTime", retentionTimeAttr,
                             <<retentionTimeAttr,
                               " must be defined on a topic with cleanup policy delete">>,
                             ConfigRange(t),
                             InsertTextAfter(ConfigStartRange(t),
                                             <<"\n">> \o retentionTimeDefTemplate))>>]
    ELSE IF ~Atoi(ValueOf(t, m, retentionTimeAttr)).ok
    THEN [ok |-> FALSE, val |-> GoInt(FALSE, <<>>),
          issues |-> <<Issue(configRule, "getAndValidateRetentionTime", retentionTimeAttr,
                             <<retentionTimeAttr,
                               " must have a valid integer value expressed in milliseconds. Use -1 for infinite retention">>,
                             ValueRange(t, m, retentionTimeAttr), NoFix)>>]
    ELSE [ok |-> TRUE, val |-> Atoi(ValueOf(t, m, retentionTimeAttr)).val,
          issues |-> <<>>]

TieredStorageEnableMsg ==
    <<"tiered storage must be enabled when retention time is longer than ">>
        \o Itoa(tieredStorageThresholdInDays) \o <<" days">>

validateTieredStorageEnabled(t, m) ==
    IF ~Has(m, tieredStorageEnableAttr)
    THEN <<Issue(configRule, "validateTieredStorageEnabled", tieredStorageEnableAttr,
                 TieredStorageEnableMsg, ConfigRange(t),
                 InsertTextAfter(ConfigStartRange(t), <<"\n">> \o enableTieredStorage))>>
    ELSE IF ValueOf(t, m, tieredStorageEnableAttr) # tieredStorageEnabledValue
    THEN <<Issue(configRule, "validateTieredStorageEnabled", tieredStorageEnableAttr,
                 TieredStorageEnableMsg, ValueRange(t, m, tieredStorageEnableAttr),
                 ReplaceText(ValueRange(t, m, tieredStorageEnableAttr),
                             Quoted(tieredStorageEnabledValue)))>>
    ELSE <<>>

\* variant: any value of remote.storage.enable is reported
validateTieredStorageDisabled_AnyValue(t, m, reason) ==
    IF ~Has(m, tieredStorageEnableAttr) THEN <<>>
    ELSE <<Issue(configRule, "validateTieredStorageDisabled", tieredStorageEnableAttr,
                 <<"tiered storage is not supported for ">> \o reason
                     \o <<": disabling it...">>,
                 ValueRange(t, m, tieredStorageEnableAttr),
                 Remove(KeyToValueRange(t, m, tieredStorageEnableAttr)))>>

validateTieredStorageDisabled(t, m, reason) ==
    IF ~Has(m, tieredStorageEnableAttr) THEN <<>>
    ELSE IF ValueOf(t, m, tieredStorageEnableAttr) # tieredStorageEnabledValue THEN <<>>
    ELSE <<Issue(configRule, "validateTieredStorageDisabled", tieredStorageEnableAttr,
                 <<"tiered storage is not supported for ">> \o reason
                     \o <<": disabling it...">>,
                 ValueRange(t, m, tieredStorageEnableAttr),
                 Remove(KeyToValueRange(t, m, tieredStorageEnableAttr)))>>

\* variant: the value of local.retention.ms is not parsed
validateLocalRetentionDefined_PresenceOnly(t, m) ==
    IF ~Has(m, localRetentionTimeAttr)
    THEN <<Issue(configRule, "validateLocalRetentionDefined", localRetentionTimeAttr,
                 <<"missing ", localRetentionTimeAttr,
                   " when tiered storage is enabled: using default '">>
                     \o Itoa(localRetentionTimeInDaysDefault * millisInOneDay) \o <<"'">>,
                 ConfigRange(t),
                 InsertTextAfter(ConfigStartRange(t), <<"\n">> \o localRetentionTimeFix))>>
    ELSE <<>>

validateLocalRetentionDefined(t, m) ==
    IF ~Has(m, localRetentionTimeAttr)
    THEN <<Issue(configRule, "validateLocalRetentionDefined", localRetentionTimeAttr,
                 <<"missing ", localRetentionTimeAttr,
                   " when tiered storage is enabled: using default '">>
                     \o Itoa(localRetentionTimeInDaysDefault * millisInOneDay) \o <<"'">>,
                 ConfigRange(t),
                 InsertTextAfter(ConfigStartRange(t), <<"\n">> \o localRetentionTimeFix))>>
    ELSE IF ~Atoi(ValueOf(t, m, localRetentionTimeAttr)).ok
    THEN <<Issue(configRule, "validateLocalRetentionDefined", localRetentionTimeAttr,
                 <<localRetentionTimeAttr,
                   " must have a valid integer value expressed in milliseconds">>,
                 ValueRange(t, m, localRetentionTimeAttr), NoFix)>>
    ELSE <<>>

validateLocalRetentionNotDefined(t, m, reason) ==
    IF ~Has(m, localRetentionTimeAttr) THEN <<>>
    ELSE <<Issue(configRule, "validateLocalRetentionNotDefined", localRetentionTimeAttr,
                 <<"defining ", localRetentionTimeAttr,
                   " is misleading when tiered storage is disabled due to ">>
                     \o reason \o <<": removing it...">>,
                 ValueRange(t, m, localRetentionTimeAttr),
                 Remove(KeyToValueRange(t, m, localRetentionTimeAttr)))>>

validateRetentionTimeNotDefined(t, m, reason) ==
    IF ~Has(m, retentionTimeAttr) THEN <<>>
    ELSE <<Issue(configRule, "validateRetentionTimeNotDefined", retentionTimeAttr,
                 <<"defining ", retentionTimeAttr, " is misleading for ">>
                     \o reason \o <<": removing it...">>,
                 KeyRange(t, m, retentionTimeAttr),
                 Remove(KeyToValueRange(t, m, retentionTimeAttr)))>>

LessThanThresholdReason ==
    <<"less than ">> \o Itoa(tieredStorageThresholdInDays) \o <<" days retention">>

CompactedTopicReason == <<"compacted topic">>

\* variant: local retention is checked only once tiered storage is enabled
validateRetentionForDeletePolicy_LocalIfTiered(t, m) ==
    LET rt == getAndValidateRetentionTime(t, m)
    IN  IF ~rt.ok
        THEN [issues |-> rt.issues, calls |-> <<"getAndValidateRetentionTime">>]
        ELSE IF mustEnableTieredStorage(rt.val)
        THEN [issues |-> rt.issues \o validateTieredStorageEnabled(t, m)
                            \o (IF validateTieredStorageEnabled(t, m) = <<>>
                                THEN validateLocalRetentionDefined(t, m) ELSE <<>>),
              calls |-> <<"getAndValidateRetentionTime", "validateTieredStorageEnabled",
                          "validateLocalRetentionDefined">>]
        ELSE [issues |-> rt.issues
                            \o validateTieredStorageDisabled(t, m, LessThanThresholdReason)
                            \o validateLocalRetentionNotDefined(t, m, LessThanThresholdReason),
              calls |-> <<"getAndValidateRetentionTime", "validateTieredStorageDisabled",
                          "validateLocalRetentionNotDefined">>]

\* variant: the checks go on without a retention time
validateRetentionForDeletePolicy_KeepGoing(t, m) ==
    LET rt == getAndValidateRetentionTime(t, m)
    IN  IF rt.ok /\ mustEnableTieredStorage(rt.val)
        THEN [issues |-> rt.issues \o validateTieredStorageEnabled(t, m)
                            \o validateLocalRetentionDefined(t, m),
              calls |-> <<"getAndValidateRetentionTime", "validateTieredStorageEnabled",
                          "validateLocalRetentionDefined">>]
        ELSE [issues |-> rt.issues
                            \o validateTieredStorageDisabled(t, m, LessThanThresholdReason)
                            \o validateLocalRetentionNotDefined(t, m, LessThanThresholdReason),
              calls |-> <<"getAndValidateRetentionTime", "validateTieredStorageDisabled",
                          "validateLocalRetentionNotDefined">>]

\* the Issues emitted and the checks entered, in order
\* variant: the checks of a short retention also run on a long one
validateRetentionForDeletePolicy_BothBranches(t, m) ==
    LET rt == getAndValidateRetentionTime(t, m)
    IN  IF ~rt.ok
        THEN [issues |-> rt.issues, calls |-> <<"getAndValidateRetentionTime">>]
        ELSE IF mustEnableTieredStorage(rt.val)
        THEN [issues |-> rt.issues \o validateTieredStorageEnabled(t, m)
                            \o validateLocalRetentionDefined(t, m)
                            \o validateTieredStorageDisabled(t, m, LessThanThresholdReason)
                            \o validateLocalRetentionNotDefined(t, m, LessThanThresholdReason),
              calls |-> <<"getAndValidateRetentionTime", "validateTieredStorageEnabled",
                          "validateLocalRetentionDefined">>]
        ELSE [issues |-> rt.issues
                            \o validateTieredStorageDisabled(t, m, LessThanThresholdReason)
                            \o validateLocalRetentionNotDefined(t, m, LessThanThresholdReason),
              calls |-> <<"getAndValidateRetentionTime", "validateTieredStorageDisabled",
                          "validateLocalRetentionNotDefined">>]

validateRetentionForDeletePolicy(t, m) ==
    LET rt == getAndValidateRetentionTime(t, m)
    IN  IF ~rt.ok
        THEN [issues |-> rt.issues, calls |-> <<"getAndValidateRetentionTime">>]
        ELSE IF mustEnableTieredStorage(rt.val)
        THEN [issues |-> rt.issues \o validateTieredStorageEnabled(t, m)
                            \o validateLocalRetentionDefined(t, m),
              calls |-> <<"getAndValidateRetentionTime", "validateTieredStorageEnabled",
                          "validateLocalRetentionDefined">>]
        ELSE [issues |-> rt.issues
                            \o validateTieredStorageDisabled(t, m, LessThanThresholdReason)
                            \o validateLocalRetentionNotDefined(t, m, LessThanThresholdReason),
              calls |-> <<"getAndValidateRetentionTime", "validateTieredStorageDisabled",
                          "validateLocalRetentionNotDefined">>]

\* variant: any policy other than compact is handled as delete
validateCleanupPolicyConfig_DeleteByDefault(t, m) ==
    LET cp == getAndValidateCleanupPolicyValue(t, m)
    IN  IF cp.policy = cleanupPolicyCompact
        THEN [policy |-> cp.policy,
              issues |-> cp.issues
                            \o validateTieredStorageDisabled(t, m, CompactedTopicReason)
                            \o validateLocalRetentionNotDefined(t, m, CompactedTopicReason)
                            \o validateRetentionTimeNotDefined(t, m, CompactedTopicReason),
              calls |-> <<"getAndValidateCleanupPolicyValue",
                          "validateTieredStorageDisabled",
                          "validateLocalRetentionNotDefined",
                          "validateRetentionTimeNotDefined">>]
        ELSE LET r == validateRetentionForDeletePolicy(t, m)
             IN  [policy |-> cp.policy, issues |-> cp.issues \o r.issues,
                  calls |-> <<"getAndValidateCleanupPolicyValue",
                              "validateRetentionForDeletePolicy">> \o r.calls]

\* variant: the retention checks report before the cleanup policy does
validateCleanupPolicyConfig_RetentionFirst(t, m) ==
    LET cp == getAndValidateCleanupPolicyValue(t, m)
    IN  IF cp.policy = cleanupPolicyDelete
        THEN LET r == validateRetentionForDeletePolicy(t, m)
             IN  [policy |-> cp.policy, issues |-> r.issues \o cp.issues,
                  calls |-> <<"getAndValidateCleanupPolicyValue",
                              "validateRetentionForDeletePolicy">> \o r.calls]
        ELSE IF cp.policy = cleanupPolicyCompact
        THEN [policy |-> cp.policy,
              issues |-> validateTieredStorageDisabled(t, m, CompactedTopicReason)
                            \o validateLocalRetentionNotDefined(t, m, CompactedTopicReason)
                            \o validateRetentionTimeNotDefined(t, m, CompactedTopicReason)
                            \o cp.issues,
              calls |-> <<"getAndValidateCleanupPolicyValue",
                          "validateTieredStorageDisabled",
                          "validateLocalRetentionNotDefined",
                          "validateRetentionTimeNotDefined">>]
        ELSE [policy |-> cp.policy, issues |-> cp.issues,
              calls |-> <<"getAndValidateCleanupPolicyValue">>]

validateCleanupPolicyConfig(t, m) ==
    LET cp == getAndValidateCleanupPolicyValue(t, m)
    IN  IF cp.policy = cleanupPolicyDelete
        THEN LET r == validateRetentionForDeletePolicy(t, m)
             IN  [policy |-> cp.policy, issues |-> cp.issues \o r.issues,
                  calls |-> <<"getAndValidateCleanupPolicyValue",
                              "validateRetentionForDeletePolicy">> \o r.calls]
        ELSE IF cp.policy = cleanupPolicyCompact
        THEN [policy |-> cp.policy,
              issues |-> cp.issues
                            \o validateTieredStorageDisabled(t, m, CompactedTopicReason)
                            \o validateLocalRetentionNotDefined(t, m, CompactedTopicReason)
                            \o validateRetentionTimeNotDefined(t, m, CompactedTopicReason),
              calls |-> <<"getAndValidateCleanupPolicyValue",
                          "validateTieredStorageDisabled",
                          "validateLocalRetentionNotDefined",
                          "validateRetentionTimeNotDefined">>]
        ELSE [policy |-> cp.policy, issues |-> cp.issues,
              calls |-> <<"getAndValidateCleanupPolicyValue">>]

----------------------------------------------------------------------------
(* The human readable magnitudes of the comments rule.                     *)

\* 30.4375 days and 365.2425 days
millisInOneMonth == GoInt(FALSE, <<2, 6, 2, 9, 8, 0, 0, 0, 0, 0>>)
millisInOneYear == GoInt(FALSE, <<3, 1, 5, 5, 6, 9, 5, 2, 0, 0, 0>>)

bytesInOneKB == 1024
bytesInOneMB == 1024 * bytesInOneKB
bytesInOneGB == 1024 * bytesInOneMB

\* math.Trunc: the integer part
MathTrunc(f) ==
    IF f.e >= 0 THEN f
    ELSE IF -f.e >= Len(f.m) THEN Float(f.neg, <<>>, 0)
    ELSE Float(f.neg, SubSeq(f.m, 1, Len(f.m) + f.e), 0)

\* float64(10)
ten == FloatOfInt(IntOfNat(10))

\* variant: the magnitude is cut after its first decimal
round_Truncate(val) == FloatDiv(MathTrunc(FloatMul(val, 10)), ten)

\* math.Round(val*10) / 10
round(val) == FloatDiv(MathRound(FloatMul(val, 10)), ten)

\* the first of the amounts that is at least 1, 0 when there is none
FirstWhole(amounts) ==
    LET whole == {u \in DOMAIN amounts : FloatGe1(amounts[u])}
    IN  IF whole = {} THEN 0 ELSE CHOOSE u \in whole : \A v \in whole : u <= v

\* the units of time from the largest, as float64, with their names
TimeUnits ==
    << [millis |-> FloatOfInt(millisInOneYear), one |-> <<"y", "e", "a", "r">>, many |-> <<"y", "e", "a", "r", "s">>],
       [millis |-> FloatOfInt(millisInOneMonth), one |-> <<"m", "o", "n", "t", "h">>, many |-> <<"m", "o", "n", "t", "h", "s">>],
       [millis |-> FloatOfInt(IntOfNat(millisInOneDay)), one |-> <<"d", "a", "y">>, many |-> <<"d", "a", "y", "s">>],
       [millis |-> FloatOfInt(IntOfNat(millisInOneHour)), one |-> <<"h", "o", "u", "r">>, many |-> <<"h", "o", "u", "r", "s">>] >>

\* the amount in the unit u, with the name of the unit
InTimeUnit(amounts, u) ==
    [units |-> amounts[u],
     unit |-> IF FloatEq1(amounts[u]) THEN TimeUnits[u].one ELSE TimeUnits[u].many]

\* if timeInYears >= 1 ... if timeInMonths >= 1 ... if timeInDays >= 1 ...
\* else hours
LargestTimeUnit(amounts) ==
    InTimeUnit(amounts, IF FirstWhole(amounts) = 0 THEN Len(TimeUnits)
                        ELSE FirstWhole(amounts))

\* timeInYears, timeInMonths, timeInDays and timeInHours, given float64(millis)
TimeAmounts(floatMillis) ==
    << round(FloatDiv(floatMillis, TimeUnits[1].millis)),
       round(FloatDiv(floatMillis, TimeUnits[2].millis)),
       round(FloatDiv(floatMillis, TimeUnits[3].millis)),
       round(FloatDiv(floatMillis, TimeUnits[4].millis)) >>

determineTimeUnits(millis) == LargestTimeUnit(TimeAmounts(FloatOfInt(millis)))

\* the units of bytes from the largest, as float64, with their names
ByteUnits ==
    << [bytes |-> FloatOfInt(IntOfNat(bytesInOneGB)), name |-> <<"G", "B">>],
       [bytes |-> FloatOfInt(IntOfNat(bytesInOneMB)), name |-> <<"M", "B">>],
       [bytes |-> FloatOfInt(IntOfNat(bytesInOneKB)), name |-> <<"K", "B">>] >>

\* if gbs >= 1 ... if mbs >= 1 ... if kbs >= 1 ... else the bytes themselves
LargestByteUnit(floatBytes, units, amounts) ==
    IF FirstWhole(amounts) = 0 THEN [units |-> floatBytes, unit |-> <<"B">>]
    ELSE [units |-> amounts[FirstWhole(amounts)],
          unit |-> units[FirstWhole(amounts)].name]

\* gbs, mbs and kbs in the order of `units`, given float64(bytes)
ByteAmounts(floatBytes, units) ==
    << round(FloatDiv(floatBytes, units[1].bytes)),
       round(FloatDiv(floatBytes, units[2].bytes)),
       round(FloatDiv(floatBytes, units[3].bytes)) >>

ByteUnitsOf(floatBytes, units) ==
    LargestByteUnit(floatBytes, units, ByteAmounts(floatBytes, units))

\* variant: the units are tried from the smallest to the largest
determineByteUnits_SmallestFirst(bytes) ==
    ByteUnitsOf(FloatOfInt(bytes), Reverse(ByteUnits))

determineByteUnits(bytes) == ByteUnitsOf(FloatOfInt(bytes), ByteUnits)

\* the comment for an amount in its unit
DurationText(baseComment, tu) ==
    <<"#", " ">> \o baseComment \o <<" ", "f", "o", "r", " ">> \o FormatFloat(tu.units) \o <<" ">> \o tu.unit

DataSizeText(baseComment, bu) ==
    <<"#", " ">> \o baseComment \o <<" ">> \o FormatFloat(bu.units) \o bu.unit

\* fmt.Sprintf("# %s for %s %s", baseComment, timeUnitsStr, unit)
buildCommentForMillis(timeMillis, baseComment) ==
    DurationText(baseComment, determineTimeUnits(timeMillis))

\* fmt.Sprintf("# %s %s%s", baseComment, byteUnitsStr, unit)
buildCommentForBytes(bytes, baseComment) ==
    DataSizeText(baseComment, determineByteUnits(bytes))
----------------------------------------------------------------------------
(* Comment tokens of the file.                                             *)

HasComment(ln) == ln.kind = "comment" \/ ln.hasTrail

\* a `#` comment token runs to the end of its line, newline included, so it
\* ends at column 1 of the next line and its bytes end with "\n"
CommentToken(t, i) ==
    [range |-> Range(LineOf(t, i),
                     IF t.config[i].kind = "comment" THEN ConfigIndentCol
                     ELSE ValEndCol(t.config[i]) + t.config[i].gap,
                     LineOf(t, i) + 1, 1),
     bytes |-> t.config[i].text]

\* hclsyntax.LexConfig, then slices.DeleteFunc(tokens, isNotComment)
getCommentsForFile(t) ==
    LET IsCommented(i) == HasComment(t.config[i])
        idx == SelectSeq([i \in 1..Len(t.config) |-> i], IsCommented)
    IN  [k \in 1..Len(idx) |-> CommentToken(t, idx[k])]

NoToken == [range |-> NoRange, bytes |-> <<>>]

\* the comment a property is bound to: first one on the line of the key that
\* starts after the value, else one on the line before that ends on the line
\* of the key
getExistingComment(t, m, key) ==
    LET comments == getCommentsForFile(t)
        kr == KeyRange(t, m, key)
        vr == ValueRange(t, m, key)
        After(i) == comments[i].range.sl = kr.sl /\ comments[i].range.sc > vr.ec
        Before(i) == comments[i].range.sl = kr.sl - 1 /\ comments[i].range.el = kr.sl
        afterIdx == {i \in 1..Len(comments) : After(i)}
        beforeIdx == {i \in 1..Len(comments) : Before(i)}
        Min(S) == CHOOSE i \in S : \A j \in S : i <= j
    IN  IF afterIdx # {} THEN [found |-> TRUE, token |-> comments[Min(afterIdx)]]
        ELSE IF beforeIdx # {} THEN [found |-> TRUE, token |-> comments[Min(beforeIdx)]]
        ELSE [found |-> FALSE, token |-> NoToken]

----------------------------------------------------------------------------
(* msk_topic_config_comments.                                              *)

localRetentionTimeCommentBase == <<"k", "e", "e", "p", " ", "d", "a", "t", "a", " ", "i", "n", " ", "p", "r", "i", "m", "a", "r", "y", " ", "s", "t", "o", "r", "a", "g", "e">>

ConfigValueCommentInfo(key, infiniteValue, baseComment, issueWhenInvalid) ==
    [key |-> key, infiniteValue |-> infiniteValue, baseComment |-> baseComment,
     issueWhenInvalid |-> issueWhenInvalid]

\* variant: the comments rule reports every invalid duration itself
configTimeValueCommentInfos_OwnValidity ==
    << ConfigValueCommentInfo(retentionTimeAttr, <<"-", "1">>, <<"k", "e", "e", "p", " ", "d", "a", "t", "a">>, TRUE),
       ConfigValueCommentInfo(localRetentionTimeAttr, <<"-", "2">>,
                              localRetentionTimeCommentBase, TRUE),
       ConfigValueCommentInfo("max.compaction.lag.ms", <<>>,
                              <<"a", "l", "l", "o", "w", " ", "n", "o", "t", " ", "c", "o", "m", "p", "a", "c", "t", "e", "d", " ", "k", "e", "y", "s", " ", "m", "a", "x", "i", "m", "u", "m">>, TRUE) >>

configTimeValueCommentInfos ==
    << ConfigValueCommentInfo(retentionTimeAttr, <<"-", "1">>, <<"k", "e", "e", "p", " ", "d", "a", "t", "a">>, FALSE),
       ConfigValueCommentInfo(localRetentionTimeAttr, <<"-", "2">>,
                              localRetentionTimeCommentBase, FALSE),
       ConfigValueCommentInfo("max.compaction.lag.ms", <<>>,
                              <<"a", "l", "l", "o", "w", " ", "n", "o", "t", " ", "c", "o", "m", "p", "a", "c", "t", "e", "d", " ", "k", "e", "y", "s", " ", "m", "a", "x", "i", "m", "u", "m">>, TRUE) >>

configByteValueCommentInfos ==
    << ConfigValueCommentInfo("max.message.bytes", <<>>,
                              <<"a", "l", "l", "o", "w", " ", "f", "o", "r", " ", "a", " ", "b", "a", "t", "c", "h", " ", "o", "f", " ", "r", "e", "c", "o", "r", "d", "s", " ", "m", "a", "x", "i", "m", "u", "m">>, TRUE) >>

\* variant: the value is parsed before it is compared with the sentinel
buildDurationComment_ParseFirst(t, m, info) ==
    LET timeVal == ValueOf(t, m, info.key)
    IN  IF ~Atoi(timeVal).ok
        THEN [msg |-> <<>>,
              issues |-> IF info.issueWhenInvalid
                         THEN <<Issue(commentsRule, "buildDurationComment", info.key,
                                      <<info.key,
                                        " must have a valid integer value expressed in milliseconds">>,
                                      ValueRange(t, m, info.key), NoFix)>>
                         ELSE <<>>]
        ELSE IF timeVal = info.infiniteValue
        THEN [msg |-> <<"#", " ">> \o info.baseComment \o <<" ", "f", "o", "r", "e", "v", "e", "r">>, issues |-> <<>>]
        ELSE [msg |-> buildCommentForMillis(Atoi(timeVal).val, info.baseComment),
              issues |-> <<>>]

\* the canonical comment ("" when there is none) and the Issues emitted
buildDurationComment(t, m, info) ==
    LET timeVal == ValueOf(t, m, info.key)
    IN  IF timeVal = info.infiniteValue
        THEN [msg |-> <<"#", " ">> \o info.baseComment \o <<" ", "f", "o", "r", "e", "v", "e", "r">>, issues |-> <<>>]
        ELSE IF ~Atoi(timeVal).ok
        THEN [msg |-> <<>>,
              issues |-> IF info.issueWhenInvalid
                         THEN <<Issue(commentsRule, "buildDurationComment", info.key,
                                      <<info.key,
                                        " must have a valid integer value expressed in milliseconds">>,
                                      ValueRange(t, m, info.key), NoFix)>>
                         ELSE <<>>]
        ELSE [msg |-> buildCommentForMillis(Atoi(timeVal).val, info.baseComment),
              issues |-> <<>>]

buildDataSizeComment(t, m, info) ==
    LET dataVal == ValueOf(t, m, info.key)
    IN  IF dataVal = info.infiniteValue
        THEN [msg |-> <<"#", " ">> \o info.baseComment \o <<" ", "u", "n", "l", "i", "m", "i", "t", "e", "d">>, issues |-> <<>>]
        ELSE IF ~Atoi(dataVal).ok
        THEN [msg |-> <<>>,
              issues |-> IF info.issueWhenInvalid
                         THEN <<Issue(commentsRule, "buildDataSizeComment", info.key,
                                      <<info.key,
                                        " must have a valid integer value expressed in bytes">>,
                                      ValueRange(t, m, info.key), NoFix)>>
                         ELSE <<>>]
        ELSE [msg |-> buildCommentForBytes(Atoi(dataVal).val, info.baseComment),
              issues |-> <<>>]

\* variant: the text of the comment is compared as it was read
reportHumanReadableComment_RawBytes(t, m, key, commentMsg) ==
    LET comment == getExistingComment(t, m, key)
    IN  IF ~comment.found
        THEN <<Issue(commentsRule, "reportHumanReadableComment", key,
                     <<key, " must have a comment with the human readable value: adding it ...">>,
                     KeyRange(t, m, key),
                     InsertTextAfter(ValueRange(t, m, key), commentMsg))>>
        ELSE IF comment.token.bytes # commentMsg
        THEN <<Issue(commentsRule, "reportHumanReadableComment", key,
                     <<key, " value doesn't correspond to the human readable value in the comment: fixing it ...">>,
                     comment.token.range,
                     ReplaceText(comment.token.range, commentMsg \o <<"\n">>))>>
        ELSE <<>>

reportHumanReadableComment(t, m, key, commentMsg) ==
    LET comment == getExistingComment(t, m, key)
    IN  IF ~comment.found
        THEN <<Issue(commentsRule, "reportHumanReadableComment", key,
                     <<key, " must have a comment with the human readable value: adding it ...">>,
                     KeyRange(t, m, key),
                     InsertTextAfter(ValueRange(t, m, key), commentMsg))>>
        ELSE IF TrimSpace(comment.token.bytes) # commentMsg
        THEN <<Issue(commentsRule, "reportHumanReadableComment", key,
                     <<key, " value doesn't correspond to the human readable value in the comment: fixing it ...">>,
                     comment.token.range,
                     ReplaceText(comment.token.range, commentMsg \o <<"\n">>))>>
        ELSE <<>>

\* if msg == "" { return nil }; return reportHumanReadableComment(...)
ReportUnlessEmpty(t, m, key, c) ==
    IF c.msg = <<>> THEN c.issues
    ELSE c.issues \o reportHumanReadableComment(t, m, key, c.msg)

validateTimeConfigValue(t, m, info) ==
    IF ~Has(m, info.key) THEN <<>>
    ELSE ReportUnlessEmpty(t, m, info.key, buildDurationComment(t, m, info))

validateByteConfigValue(t, m, info) ==
    IF ~Has(m, info.key) THEN <<>>
    ELSE ReportUnlessEmpty(t, m, info.key, buildDataSizeComment(t, m, info))

\* for _, configValueInfo := range infos { ... }
ForEachInfo(t, m, infos, byteValues) ==
    LET done[i \in 0..Len(infos)] ==
            IF i = 0 THEN <<>>
            ELSE done[i - 1] \o (IF byteValues THEN validateByteConfigValue(t, m, infos[i])
                                 ELSE validateTimeConfigValue(t, m, infos[i]))
    IN  done[Len(infos)]

validateConfigValuesInComments(t, m) ==
    ForEachInfo(t, m, configTimeValueCommentInfos, FALSE)
        \o ForEachInfo(t, m, configByteValueCommentInfos, TRUE)

\* MSKTopicConfigCommentsRule.validateTopicConfigComments
validateTopicConfigComments(t) ==
    IF ~t.hasConfig THEN [issues |-> <<>>, err |-> FALSE]
    ELSE LET km == constructConfigKeyToPairMap(t)
         IN  IF km.err THEN [issues |-> <<>>, err |-> TRUE]
             ELSE [issues |-> validateConfigValuesInComments(t, km.map), err |-> FALSE]

----------------------------------------------------------------------------
(* msk_topic_config: the comment of retention.ms, checked by the config    *)
(* rule itself.                                                            *)

\* determineTimeUnits of this build: whole days, else whole hours
determineTimeUnits_configRule(millis) ==
    LET timeInDays == IntDivNat(millis, millisInOneDay)
        timeInHours == IntDivNat(millis, millisInOneHour)
    IN  IF ~timeInDays.neg /\ timeInDays.mag # <<>>
        THEN [units |-> timeInDays,
              unit |-> IF timeInDays = IntOfNat(1) THEN <<"d", "a", "y">> ELSE <<"d", "a", "y", "s">>]
        ELSE [units |-> timeInHours,
              unit |-> IF timeInHours = IntOfNat(1) THEN <<"h", "o", "u", "r">> ELSE <<"h", "o", "u", "r", "s">>]

\* buildDurationComment of this build: "" when the value is not an integer
buildDurationComment_configRule(timeVal, infiniteVal) ==
    IF timeVal = infiniteVal THEN <<"#", " ", "k", "e", "e", "p", " ", "d", "a", "t", "a", " ", "f", "o", "r", "e", "v", "e", "r">>
    ELSE IF ~Atoi(timeVal).ok THEN <<>>
    ELSE LET tu == determineTimeUnits_configRule(Atoi(timeVal).val)
         IN  <<"#", " ", "k", "e", "e", "p", " ", "d", "a", "t", "a", " ", "f", "o", "r", " ">> \o IntText(tu.units) \o <<" ">> \o tu.unit

\* the first comment that ends on the line of the key
getExistingComment_configRule(t, m, key) ==
    LET comments == getCommentsForFile(t)
        idx == {i \in 1..Len(comments) : comments[i].range.el = KeyRange(t, m, key).sl}
    IN  IF idx # {}
        THEN [found |-> TRUE,
              token |-> comments[CHOOSE i \in idx : \A j \in idx : i <= j]]
        ELSE [found |-> FALSE, token |-> NoToken]

validateConfigValuesInComments_configRule(t, m) ==
    IF ~Has(m, retentionTimeAttr) THEN <<>>
    ELSE LET msg == buildDurationComment_configRule(ValueOf(t, m, retentionTimeAttr), <<"-", "1">>)
             comment == getExistingComment_configRule(t, m, retentionTimeAttr)
         IN  IF msg = <<>> THEN <<>>
             ELSE IF ~comment.found
             THEN <<Issue(configRule, "validateConfigValuesInComments", retentionTimeAttr,
                          <<retentionTimeAttr,
                            " must have a comment with the human readable value: adding it ...">>,
                          KeyRange(t, m, retentionTimeAttr),
                          InsertTextBefore(KeyRange(t, m, retentionTimeAttr),
                                           msg \o <<"\n">>))>>
             ELSE IF TrimSpace(comment.token.bytes) # msg
             THEN <<Issue(configRule, "validateConfigValuesInComments", retentionTimeAttr,
                          <<retentionTimeAttr,
                            " value doesn't correspond to the human readable value in the comment: fixing it ...">>,
                          comment.token.range,
                          ReplaceText(comment.token.range, msg \o <<"\n">>))>>
             ELSE <<>>
----------------------------------------------------------------------------
(* The host: the fixer that collects the Fixes of a rule's Check, the text *)
(* once they are applied, and the formatting of the changed file.          *)

\* hcl.Range.Empty, ContainsOffset and Overlaps: a range overlaps another
\* one when it holds the other's start or end position
Empty(r) == r.sl = r.el /\ r.sc = r.ec

ContainsOffset(r, line, col) ==
    /\ r.sl < line \/ (r.sl = line /\ r.sc <= col)
    /\ line < r.el \/ (line = r.el /\ col < r.ec)

Overlaps(r, other) ==
    /\ ~Empty(r) /\ ~Empty(other)
    /\ \/ ContainsOffset(r, other.sl, other.sc) \/ ContainsOffset(r, other.el, other.ec)
       \/ ContainsOffset(other, r.sl, r.sc) \/ ContainsOffset(other, r.el, r.ec)

\* the range a Fix rewrites: an insertion rewrites the empty range at the
\* end (InsertTextAfter) or at the start (InsertTextBefore) of its range
RewriteRange(fix) ==
    IF fix.op = "insert_after"
    THEN Range(fix.range.el, fix.range.ec, fix.range.el, fix.range.ec)
    ELSE IF fix.op = "insert_before"
    THEN Range(fix.range.sl, fix.range.sc, fix.range.sl, fix.range.sc)
    ELSE fix.range

\* runner.EmitIssueWithFix for the Issues `new` of a Check that has emitted
\* `sofar`. With --fix the fixer keeps the changes of the Check: a rewrite
\* that overlaps an earlier one fails, the Issue is not recorded and the
\* error is returned by the Check. Without --fix the changes of a Fix are
\* dropped as soon as its Issue is recorded, and every Fix is accepted.
EmitIssueWithFix(sofar, new, keep) ==
    LET all == sofar \o new
        Fails(k) ==
            /\ new[k].fix.op # "none"
            /\ \E j \in 1..(Len(sofar) + k - 1) :
                  /\ all[j].fix.op # "none"
                  /\ Overlaps(RewriteRange(all[j].fix), RewriteRange(new[k].fix))
        failed == {k \in 1..Len(new) : Fails(k)}
    IN  IF ~keep \/ failed = {} THEN [issues |-> new, err |-> FALSE]
        ELSE [issues |-> SubSeq(new, 1, (CHOOSE k \in failed : \A j \in failed : k <= j) - 1),
              err |-> TRUE]

Spaces(n) == [i \in 1..n |-> " "]

\* the lines of the config object an inserted text brings: the text is cut
\* at its newlines, a piece that starts with `#` is a comment, a piece
\* `"key" = "value"` is a property, and an empty piece joins the text around
\* the insertion
ParseLines(text) ==
    LET LineOfText(s) ==
            LET body == TrimLeft(s)
            IN  IF body = <<>> THEN <<>>
                ELSE IF body[1] = "#" THEN <<CommentLine(body \o <<"\n">>)>>
                ELSE <<PropLine(body[2], SubSeq(body, 4, Len(body) - 1))>>
        cuts == {0} \cup {i \in 1..Len(text) : text[i] = "\n"}
        Cut(k) == CHOOSE c \in cuts : Cardinality({b \in cuts : b < c}) = k - 1
        End(c) == IF \E b \in cuts : b > c
                  THEN CHOOSE b \in cuts : b > c /\ \A d \in cuts : d > c => b <= d
                  ELSE Len(text) + 1
        lines[k \in 0..Cardinality(cuts)] ==
            IF k = 0 THEN <<>>
            ELSE lines[k - 1] \o LineOfText(SubSeq(text, Cut(k) + 1, End(Cut(k)) - 1))
    IN  lines[Cardinality(cuts)]

\* variant: of the Fixes, the texts inserted after the opening brace of
\* the config are applied, each in front of the ones inserted before it
Changes_LastFirst(t, fixes) ==
    LET AtStart(k) ==
            fixes[k].op = "insert_after" /\ fixes[k].range = ConfigStartRange(t)
        front[k \in 0..Len(fixes)] ==
            IF k = 0 THEN <<>>
            ELSE (IF AtStart(k) THEN ParseLines(fixes[k].text) ELSE <<>>) \o front[k - 1]
    IN  [t EXCEPT !.config = front[Len(fixes)] \o t.config]

\* fixer.Changes() for the Fixes of one Check, in the order of their
\* Issues: the text of the topic once every Fix is applied. Texts inserted
\* at one position follow each other in the order of the Fixes; a removed
\* pair leaves its line, and its trailing comment, behind; a text inserted
\* after a value lands right after the closing quote, in front of what the
\* line held there; the text that replaces a comment token takes the place
\* of the token, newline included.
Changes(t, fixes) ==
    LET Some(P(_)) == \E k \in 1..Len(fixes) : P(fixes[k])
        The(P(_)) == fixes[CHOOSE k \in 1..Len(fixes) : P(fixes[k])]
        Gather(P(_)) ==
            LET g[k \in 0..Len(fixes)] ==
                    IF k = 0 THEN <<>>
                    ELSE g[k - 1] \o (IF P(fixes[k]) THEN ParseLines(fixes[k].text)
                                      ELSE <<>>)
            IN  g[Len(fixes)]
        AtStart(f) == f.op = "insert_after" /\ t.hasConfig /\ f.range = ConfigStartRange(t)
        AddsReplFactor(f) ==
            f.op = "insert_after" /\ t.hasName /\ f.range = NameRange(t)
        SetsReplFactor(f) ==
            f.op = "replace" /\ t.hasRepl /\ f.range = ReplRange(t)
        AttrValue(text) ==
            DigitsToNat(Atoi(SubSeq(text, (CHOOSE i \in 1..Len(text) : text[i] = " = ") + 1,
                                    Len(text))).val.mag, 10, 0)
        Rewritten(i) ==
            LET ln == t.config[i]
                Removes(f) ==
                    /\ f.op = "remove" /\ ln.kind = "prop"
                    /\ f.range = Range(KeyRangeOf(t, i).sl, KeyRangeOf(t, i).sc,
                                       ValRangeOf(t, i).el, ValRangeOf(t, i).ec)
                SetsValue(f) ==
                    f.op = "replace" /\ ln.kind = "prop" /\ f.range = ValRangeOf(t, i)
                SetsComment(f) ==
                    /\ f.op = "replace" /\ HasComment(ln)
                    /\ f.range = CommentToken(t, i).range
                Before(f) ==
                    f.op = "insert_before" /\ ln.kind = "prop" /\ f.range = KeyRangeOf(t, i)
                After(f) ==
                    f.op = "insert_after" /\ ln.kind = "prop" /\ f.range = ValRangeOf(t, i)
                valued ==
                    IF Some(Removes)
                    THEN (IF ln.hasTrail THEN CommentLine(ln.text) ELSE BlankLine)
                    ELSE IF Some(SetsValue)
                    THEN [ln EXCEPT !.val = SubSeq(The(SetsValue).text, 2,
                                                   Len(The(SetsValue).text) - 1)]
                    ELSE ln
                commented ==
                    IF Some(SetsComment)
                    THEN [valued EXCEPT !.text = The(SetsComment).text]
                    ELSE valued
            IN  Gather(Before)
                    \o <<IF Some(After) /\ commented.kind = "prop"
                         THEN [commented EXCEPT
                                  !.hasTrail = TRUE, !.gap = 0,
                                  !.text = The(After).text
                                              \o (IF ln.hasTrail
                                                  THEN Spaces(ln.gap) \o commented.text
                                                  ELSE <<"\n">>)]
                         ELSE commented>>
        body[i \in 0..Len(t.config)] ==
            IF i = 0 THEN <<>> ELSE body[i - 1] \o Rewritten(i)
    IN  [t EXCEPT !.hasRepl = t.hasRepl \/ Some(AddsReplFactor),
                  !.replFactor = IF Some(AddsReplFactor)
                                 THEN AttrValue(The(AddsReplFactor).text)
                                 ELSE IF Some(SetsReplFactor)
                                 THEN AttrValue(The(SetsReplFactor).text)
                                 ELSE t.replFactor,
                  !.replPad = IF Some(AddsReplFactor) \/ Some(SetsReplFactor) THEN 1
                              ELSE t.replPad,
                  !.config = Gather(AtStart) \o body[Len(t.config)]]

Max(S) == CHOOSE n \in S : \A m \in S : m <= n

\* the lines around line i that form a chain with it: the lines in a row
\* that satisfy InChain
ChainOf(lines, i, InChain(_)) ==
    {j \in 1..Len(lines) :
        \A k \in (IF j < i THEN j ELSE i)..(IF j < i THEN i ELSE j) : InChain(lines[k])}

\* hclwrite.Format on the attributes of the resource: `name` and
\* `replication_factor` stand on lines in a row and their `=` are aligned
FormatAttrs(t) ==
    [t EXCEPT !.namePad = IF t.hasName /\ t.hasRepl THEN 18 - 4 + 1 ELSE 1,
              !.replPad = 1]

\* hclwrite.Format on the lines of the config object: in a row of
\* properties the `=` are set one blank after the longest key
FormatAssign(lines) ==
    LET IsProp(ln) == ln.kind = "prop"
        Lead(j) == KeyLen(lines[j].key)
    IN  [i \in 1..Len(lines) |->
            IF lines[i].kind = "prop"
            THEN [lines[i] EXCEPT
                     !.pad = Max({Lead(j) : j \in ChainOf(lines, i, IsProp)}) - Lead(i) + 1]
            ELSE lines[i]]

\* in a row of properties with a trailing comment the comments are set one
\* blank after the longest property
FormatComment(lines) ==
    LET IsTrailed(ln) == ln.hasTrail
    IN  [i \in 1..Len(lines) |->
            IF lines[i].hasTrail
            THEN [lines[i] EXCEPT
                     !.gap = Max({ValEndCol(lines[j]) : j \in ChainOf(lines, i, IsTrailed)})
                                 - ValEndCol(lines[i]) + 1]
            ELSE lines[i]]

\* fixer.FormatChanges: hclwrite.Format on the changed file
FormatChanges(t) ==
    [FormatAttrs(t) EXCEPT !.config = FormatComment(FormatAssign(t.config))]

----------------------------------------------------------------------------
(* The topics linted.                                                      *)

\* the lines of a config object written as in the rules' tests: the `=` of
\* all the properties of the object are aligned
AlignedConfig(lines) ==
    LET props == {j \in 1..Len(lines) : lines[j].kind = "prop"}
    IN  [i \in 1..Len(lines) |->
            IF lines[i].kind = "prop"
            THEN [lines[i] EXCEPT
                     !.pad = Max({KeyLen(lines[j].key) : j \in props})
                                 - KeyLen(lines[i].key) + 1]
            ELSE lines[i]]

\* a resource whose name is its label and whose `=` are aligned; repl is
\* <<>> or the replication factor
Topic(label, hasName, repl, hasConfig, badKey, config) ==
    [line |-> FirstLine, label |-> label, hasName |-> hasName, name |-> label,
     namePad |-> IF hasName /\ repl # <<>> THEN 15 ELSE 1,
     hasRepl |-> repl # <<>>, replFactor |-> IF repl = <<>> THEN 0 ELSE repl[1],
     replPad |-> 1, hasConfig |-> hasConfig, badKey |-> badKey,
     config |-> AlignedConfig(config)]

\* the same resource with one blank in front of every `=`
Unaligned(t) ==
    [t EXCEPT !.namePad = 1,
              !.config = [i \in 1..Len(t.config) |->
                             IF t.config[i].kind = "prop"
                             THEN [t.config[i] EXCEPT !.pad = 1] ELSE t.config[i]]]

\* nothing, or one of the values of S
Opt(S) == {<<>>} \cup {<<v>> : v \in S}

Prop(key, opt) == IF opt = <<>> THEN <<>> ELSE <<PropLine(key, opt[1])>>

Line(text) == text \o <<"\n">>

CompressionValues == Opt({<<"z", "s", "t", "d">>, <<"g", "z", "i", "p">>})
CleanupValues == Opt({<<"d", "e", "l", "e", "t", "e">>, <<"c", "o", "m", "p", "a", "c", "t">>, <<"d", "e", "l", "e", "t", "e", "d">>})
RetentionValues ==
    Opt({<<"-", "1">>, <<"?", "?", "?">>, <<"0">>, <<"1", "7", "2", "8", "0", "0", "0", "0", "0">>, <<"2", "5", "9", "1", "9", "9", "9", "9", "9">>, <<"2", "5", "9", "2", "0", "0", "0", "0", "0">>,
         <<"2", "5", "9", "2", "0", "0", "0", "0", "0", "0">>, <<"1", "2", "6", "2", "2", "7", "8", "0", "8", "0", "0", "0">>})
RemoteValues == Opt({<<"t", "r", "u", "e">>, <<"f", "a", "l", "s", "e">>})
LocalValues == Opt({<<"8", "6", "4", "0", "0", "0", "0", "0">>, <<"i", "n", "v", "a", "l", "i", "d", "-", "v", "a", "l">>})
RetentionComments == Opt({Line(<<"#", " ", "k", "e", "e", "p", " ", "d", "a", "t", "a", " ", "f", "o", "r", " ", "2", " ", "d", "a", "y", "s">>)})

ConfigOf(local, remote, cleanup, comment, retention, compression) ==
    Prop(localRetentionTimeAttr, local) \o Prop(tieredStorageEnableAttr, remote)
        \o Prop(cleanupPolicyKey, cleanup)
        \o (IF comment = <<>> THEN <<>> ELSE <<CommentLine(comment[1])>>)
        \o Prop(retentionTimeAttr, retention) \o Prop(compressionTypeKey, compression)

ConfigTopics ==
    {Topic(<<"t", "o", "p", "i", "c">>, TRUE, <<replicationFactorVal>>, TRUE, FALSE,
           ConfigOf(local, remote, cleanup, comment, retention, compression)) :
        local \in LocalValues, remote \in RemoteValues, cleanup \in CleanupValues,
        comment \in RetentionComments, retention \in RetentionValues,
        compression \in CompressionValues}

\* the topics of ConfigTopics that have a compression type
CompressedTopics ==
    {Topic(<<"t", "o", "p", "i", "c">>, TRUE, <<replicationFactorVal>>, TRUE, FALSE,
           ConfigOf(local, remote, cleanup, comment, retention, <<<<"z", "s", "t", "d">>>>)) :
        local \in LocalValues, remote \in RemoteValues, cleanup \in CleanupValues,
        comment \in RetentionComments, retention \in RetentionValues}

GoodConfig ==
    ConfigOf(<<>>, <<>>, <<<<"d", "e", "l", "e", "t", "e">>>>, <<Line(<<"#", " ", "k", "e", "e", "p", " ", "d", "a", "t", "a", " ", "f", "o", "r", " ", "1", " ", "d", "a", "y">>)>>,
             <<<<"8", "6", "4", "0", "0", "0", "0", "0">>>>, <<<<"z", "s", "t", "d">>>>)

GoodConfigTopic ==
    Topic(<<"g", "o", "o", "d", "_", "t", "o", "p", "i", "c">>, TRUE, <<replicationFactorVal>>, TRUE, FALSE, GoodConfig)

\* the labels of the topics of replicationFactorTests and compressionTypeTests
AttrLabels ==
    {<<"t", "o", "p", "i", "c", "_", "w", "i", "t", "h", "o", "u", "t", "_", "r", "e", "p", "l", "_", "f", "a", "c", "t", "o", "r", "_", "a", "n", "d", "_", "n", "a", "m", "e">>, <<"t", "o", "p", "i", "c", "_", "w", "i", "t", "h", "o", "u", "t", "_", "r", "e", "p", "l", "_", "f", "a", "c", "t", "o", "r">>,
     <<"t", "o", "p", "i", "c", "_", "w", "i", "t", "h", "_", "i", "n", "c", "o", "r", "r", "e", "c", "t", "_", "r", "e", "p", "l", "_", "f", "a", "c", "t", "o", "r">>, <<"t", "o", "p", "i", "c", "_", "w", "i", "t", "h", "o", "u", "t", "_", "c", "o", "n", "f", "i", "g">>}

AttrTopics ==
    {Topic(<<"t", "o", "p", "i", "c", "_", "w", "i", "t", "h", "_", "i", "n", "c", "o", "r", "r", "e", "c", "t", "_", "r", "e", "p", "l", "_", "f", "a", "c", "t", "o", "r">>, hasName, repl, TRUE, badKey, GoodConfig) :
        hasName \in BOOLEAN, repl \in Opt({1, 10, replicationFactorVal}),
        badKey \in BOOLEAN}
    \cup {Topic(label, hasName, repl, FALSE, FALSE, <<>>) :
        label \in AttrLabels, hasName \in BOOLEAN, repl \in Opt({replicationFactorVal})}
    \cup {Topic(<<"t", "o", "p", "i", "c", "_", "w", "i", "t", "h", "o", "u", "t", "_", "r", "e", "p", "l", "_", "f", "a", "c", "t", "o", "r">>, hasName, repl, TRUE, badKey,
                <<PropLine(compressionTypeKey, <<"g", "z", "i", "p">>),
                  PropLine(retentionTimeAttr, <<"a", "b", "c">>),
                  PropLine("max.message.bytes", <<"1", "5", "3", "6">>)>>) :
            hasName \in BOOLEAN, repl \in Opt({1}), badKey \in BOOLEAN}
    \cup {Unaligned(Topic(<<"t", "o", "p", "i", "c", "_", "w", "i", "t", "h", "o", "u", "t", "_", "c", "o", "n", "f", "i", "g">>, TRUE, repl, TRUE, FALSE, GoodConfig)) :
            repl \in Opt({1, replicationFactorVal})}

\* a property with no comment, a comment on the line before, or a comment
\* on its line `gap` columns after the value
Annotated(key, val, place, text) ==
    CASE place = "none" -> <<PropLine(key, val)>>
      [] place = "before" -> <<CommentLine(text), PropLine(key, val)>>
      [] place = "after0" -> <<PropLineWithComment(key, val, 0, text)>>
      [] OTHER -> <<PropLineWithComment(key, val, 1, text)>>

Places == {"none", "before", "after0", "after1"}

RetentionLines ==
    {Annotated(retentionTimeAttr, val, place, text) :
        val \in {<<"-", "1">>, <<"8", "6", "4", "0", "0", "0", "0", "0">>, <<"5", "4", "0", "0", "0", "0", "0">>, <<"a", "b", "c">>},
        place \in Places,
        text \in {Line(<<"#", " ", "k", "e", "e", "p", " ", "d", "a", "t", "a", " ", "f", "o", "r", " ", "1", " ", "d", "a", "y">>), Line(<<"#", " ", "k", "e", "e", "p", " ", "d", "a", "t", "a", " ", "f", "o", "r", "e", "v", "e", "r">>),
                  Line(<<"#", " ", "k", "e", "e", "p", " ", "d", "a", "t", "a", " ", "f", "o", "r", " ", "1", ".", "5", " ", "h", "o", "u", "r", "s">>)}}

OtherLines ==
    {<<>>}
    \cup {Annotated(localRetentionTimeAttr, <<"3", "6", "0", "0", "0", "0", "0">>, place,
                    Line(<<"#", " ", "k", "e", "e", "p", " ", "d", "a", "t", "a", " ", "i", "n", " ", "p", "r", "i", "m", "a", "r", "y", " ", "s", "t", "o", "r", "a", "g", "e", " ", "f", "o", "r", " ", "1", " ", "h", "o", "u", "r">>)) :
            place \in {"none", "before"}}
    \cup {Annotated("max.compaction.lag.ms", val, "none", <<>>) :
            val \in {<<"6", "0", "4", "8", "0", "0", "0", "0", "0">>, <<"a", "b", "c">>}}
    \cup {Annotated("max.message.bytes", <<"1", "0", "4", "8", "5", "7", "6">>, place,
                    Line(<<"#", " ", "a", "l", "l", "o", "w", " ", "f", "o", "r", " ", "a", " ", "b", "a", "t", "c", "h", " ", "o", "f", " ", "r", "e", "c", "o", "r", "d", "s", " ", "m", "a", "x", "i", "m", "u", "m", " ", "1", "M", "B">>)) :
            place \in {"none", "after0", "after1"}}
    \cup {Annotated("max.message.bytes", val, "none", <<>>) :
            val \in {<<"1", "5", "3", "6">>, <<"a", "b", "c">>, <<>>}}
    \cup {Annotated(localRetentionTimeAttr, <<"-", "2">>, place,
                    Line(<<"#", " ", "k", "e", "e", "p", " ", "d", "a", "t", "a", " ", "i", "n", " ", "p", "r", "i", "m", "a", "r", "y", " ", "s", "t", "o", "r", "a", "g", "e", " ", "f", "o", "r", "e", "v", "e", "r">>)) :
            place \in {"none", "after1"}}
    \cup {Annotated(localRetentionTimeAttr, <<"a", "b", "c">>, "after1",
                    Line(<<"#", " ", "k", "e", "e", "p", " ", "d", "a", "t", "a", " ", "i", "n", " ", "p", "r", "i", "m", "a", "r", "y", " ", "s", "t", "o", "r", "a", "g", "e", " ", "f", "o", "r", " ", "1", " ", "h", "o", "u", "r">>))}
    \cup {Annotated("max.compaction.lag.ms", <<>>, "before",
                    Line(<<"#", " ", "a", "l", "l", "o", "w", " ", "n", "o", "t", " ", "c", "o", "m", "p", "a", "c", "t", "e", "d", " ", "k", "e", "y", "s", " ", "m", "a", "x", "i", "m", "u", "m", " ", "f", "o", "r", "e", "v", "e", "r">>))}

CommentTopics ==
    {Topic(<<"t", "o", "p", "i", "c">>, TRUE, <<replicationFactorVal>>, TRUE, FALSE,
           <<PropLine(cleanupPolicyKey, cleanup)>> \o first \o second
               \o <<PropLine(compressionTypeKey, <<"z", "s", "t", "d">>)>>) :
        cleanup \in {cleanupPolicyDelete, cleanupPolicyCompact},
        first \in RetentionLines, second \in OtherLines}
    \cup
    {Topic(<<"t", "o", "p", "i", "c">>, TRUE, <<replicationFactorVal>>, TRUE, FALSE,
           <<PropLine(cleanupPolicyKey, cleanupPolicyDelete),
             PropLine(retentionTimeAttr, <<"8", "6", "4", "0", "0", "0", "0", "0">>)>>
               \o Annotated(localRetentionTimeAttr, <<"3", "6", "0", "0", "0", "0", "0">>, "before",
                            Line(<<"#", " ", "k", "e", "e", "p", " ", "d", "a", "t", "a", " ", "i", "n", " ", "p", "r", "i", "m", "a", "r", "y", " ", "s", "t", "o", "r", "a", "g", "e", " ", "f", "o", "r", " ", "2", " ", "h", "o", "u", "r", "s">>))
               \o Annotated("max.message.bytes", <<"1", "0", "4", "8", "5", "7", "6">>, place,
                            Line(<<"#", " ", "a", "l", "l", "o", "w", " ", "f", "o", "r", " ", "a", " ", "b", "a", "t", "c", "h", " ", "o", "f", " ", "r", "e", "c", "o", "r", "d", "s", " ", "m", "a", "x", "i", "m", "u", "m", " ", "1", "M", "B">>))) :
        place \in {"before", "after1"}}
    \cup
    {Topic(<<"t", "o", "p", "i", "c">>, TRUE, <<replicationFactorVal>>, TRUE, FALSE,
           <<PropLine(cleanupPolicyKey, cleanupPolicyDelete),
             PropLine(retentionTimeAttr, <<"8", "6", "4", "0", "0", "0", "0", "0">>),
             PropLine("max.message.bytes", <<"1", "5", "3", "6">>),
             PropLine(compressionTypeKey, <<"z", "s", "t", "d">>)>>)}

\* comments that end with white space, or that only differ by a character
SpaceTopics ==
    {Topic(<<"t", "o", "p", "i", "c">>, TRUE, <<replicationFactorVal>>, TRUE, FALSE,
           <<PropLine(cleanupPolicyKey, cleanupPolicyDelete)>>
               \o Annotated(retentionTimeAttr, <<"8", "6", "4", "0", "0", "0", "0", "0">>, place, text)
               \o <<PropLine(compressionTypeKey, <<"z", "s", "t", "d">>)>>) :
        place \in {"before", "after1"},
        text \in {<<"#", " ", "k", "e", "e", "p", " ", "d", "a", "t", "a", " ", "f", "o", "r", " ", "1", " ", "d", "a", "y">> \o <<"\f", "\n">>,
                  <<"#", " ", "k", "e", "e", "p", " ", "d", "a", "t", "a", " ", "f", "o", "r", " ", "1", " ", "d", "a", "y">> \o <<"\\u00A0", "\n">>,
                  <<"#", " ", "k", "e", "e", "p", " ", "d", "a", "t", "a", " ", "f", "o", "r", " ", "1", " ", "d", "a", "y">> \o <<"\\v", "\\u0085", "\t", "\r", "\n">>,
                  <<"#", " ", "k", "e", "e", "p", " ", "d", "a", "t", "a", " ", "f", "o", "r", " ", "1", " ", "d", "a", "y">> \o <<"\\u3000", "\n">>,
                  <<"#", " ", "k", "e", "e", "p", " ", "d", "a", "t", "a", " ", "f", "o", "r", " ", "1", " ", "d", "a", "y">> \o <<"\\u2009", "\\u1680", "\\u2028", "\n">>,
                  <<"#", " ", "k", "e", "e", "p", " ", "d", "a", "t", "a", " ", "f", "o", "r", " ", "1", " ", "d", "a", "y">> \o <<"\\u200B", "\n">>,
                  <<"#", " ", "k", "e", "e", "p", " ", "d", "a", "t", "a", " ", "f", "o", "r", " ", "1", " ", "d", "a", "y", ".">> \o <<"\n">>}}

\* the documented examples
DurationExamples ==
    { <<<<"8", "6", "4", "0", "0", "0", "0", "0">>, <<"1", " ", "d", "a", "y">>>>, <<<<"5", "1", "8", "4", "0", "0", "0", "0", "0", "0">>, <<"2", " ", "m", "o", "n", "t", "h", "s">>>>,
      <<<<"3", "1", "5", "3", "6", "0", "0", "0", "0", "0", "0">>, <<"1", " ", "y", "e", "a", "r">>>>, <<<<"2", "1", "6", "0", "0", "0", "0", "0">>, <<"6", " ", "h", "o", "u", "r", "s">>>> }

MaxTwentieths == 45

\* n - 1, for n > 0
NatPred(ds) ==
    LET i == CHOOSE k \in 1..Len(ds) : ds[k] # 0 /\ \A j \in (k + 1)..Len(ds) : ds[j] = 0
    IN  Normal([k \in 1..Len(ds) |-> IF k < i THEN ds[k] ELSE IF k = i THEN ds[k] - 1 ELSE 9])

\* n, n + 1 and, for n > 0, n - 1
Around(ds) ==
    {ds, MulSmall(ds, 10, 1, 1)} \cup (IF ds = <<>> THEN {} ELSE {NatPred(ds)})

\* the units of time, in seconds
SecondsInUnits ==
    {DigitsToNat(DivSmall(millisInOneYear.mag, 10, 1000).quot, 10, 0),
     DigitsToNat(DivSmall(millisInOneMonth.mag, 10, 1000).quot, 10, 0),
     millisInOneDay \div 1000, millisInOneHour \div 1000}

\* the durations k/20 of a year, a month, a day and an hour, in
\* milliseconds, the durations one millisecond before and after them, the
\* documented examples and durations of the rules' documentation
DurationMillis ==
    UNION {Around(MulSmall(NatDigits(k * s, 10), 10, 50, 0)) :
           k \in 0..MaxTwentieths, s \in SecondsInUnits}
    \cup {Atoi(e[1]).val.mag : e \in DurationExamples}

DurationTopics ==
    {Topic(<<"t", "o", "p", "i", "c">>, TRUE, <<replicationFactorVal>>, TRUE, FALSE,
           <<PropLine(cleanupPolicyKey, cleanupPolicyDelete),
             PropLine(retentionTimeAttr, DecimalText(d))>>) : d \in DurationMillis}
    \cup {Topic(<<"t", "o", "p", "i", "c">>, TRUE, <<replicationFactorVal>>, TRUE, FALSE,
                <<PropLine(cleanupPolicyKey, cleanupPolicyDelete),
                  PropLine(retentionTimeAttr, v)>>) :
             v \in {<<"-", "1">>, <<"-", "2">>, <<"-", "8", "6", "4", "0", "0", "0", "0", "0">>, <<"1", "2", "6", "2", "2", "7", "8", "0", "8", "0", "0", "0">>, <<"2", "2", "0", "8", "9", "8", "4", "8", "2", "0", "0", "0">>,
                    <<"6", "6", "1", "8", "2", "4", "5", "4", "6", "7", "7", "0", "5", "1", "9", "9">>,
                    <<"0", "0", "0", "0", "0", "0", "0", "0", "0", "0", "0", "1">>, <<"+", "3", "6", "0", "0", "0", "0", "0">>, <<"9", "2", "2", "3", "3", "7", "2", "0", "3", "6", "8", "5", "4", "7", "7", "5", "8", "0", "7">>,
                    <<"9", "2", "2", "3", "3", "7", "2", "0", "3", "6", "8", "5", "4", "7", "7", "5", "8", "0", "8">>, <<"-", "9", "2", "2", "3", "3", "7", "2", "0", "3", "6", "8", "5", "4", "7", "7", "5", "8", "0", "8">>}}

\* the sizes k/20 of a GB, a MB and a KB, in bytes, rounded down, and the
\* sizes one byte before and after them
ByteSizes ==
    UNION {Around(DivSmall(MulSmall(NatDigits(u, 10), 10, k, 0), 10, 20).quot) :
           k \in 0..MaxTwentieths,
           u \in {bytesInOneGB, bytesInOneMB, bytesInOneKB}}

ByteTopics ==
    {Topic(<<"t", "o", "p", "i", "c">>, TRUE, <<replicationFactorVal>>, TRUE, FALSE,
           <<PropLine(cleanupPolicyKey, cleanupPolicyCompact),
             PropLine("max.message.bytes", DecimalText(b))>>) : b \in ByteSizes}
    \cup {Topic(<<"t", "o", "p", "i", "c">>, TRUE, <<replicationFactorVal>>, TRUE, FALSE,
                <<PropLine(cleanupPolicyKey, cleanupPolicyCompact),
                  PropLine("max.message.bytes", v)>>) :
             v \in {<<"9", "2", "2", "3", "3", "7", "2", "0", "3", "6", "8", "5", "4", "7", "7", "5", "8", "0", "7">>, <<"2", "2", "5", "1", "8", "2", "7", "7", "8", "4", "6", "5", "9", "7", "6", "3">>, <<"-", "1", "0", "2", "4">>}}

\* the topics that stand before another topic of the module
OtherTopics ==
    {GoodConfigTopic,
     Topic(<<"o", "t", "h", "e", "r", "_", "t", "o", "p", "i", "c">>, TRUE, <<1>>, TRUE, FALSE,
           <<PropLine(retentionTimeAttr, <<"8", "6", "4", "0", "0", "0", "0", "0">>)>>),
     Topic(<<"o", "t", "h", "e", "r", "_", "t", "o", "p", "i", "c">>, TRUE, <<replicationFactorVal>>, TRUE, TRUE, GoodConfig)}

\* the topics followed when other topics stand before them
ModuleTopics ==
    AttrTopics
    \cup {Topic(<<"t", "o", "p", "i", "c">>, TRUE, <<replicationFactorVal>>, TRUE, FALSE,
                <<PropLine(cleanupPolicyKey, cleanup),
                  PropLine(retentionTimeAttr, retention)>>) :
             cleanup \in {cleanupPolicyDelete, cleanupPolicyCompact},
             retention \in {<<"-", "1">>, <<"8", "6", "4", "0", "0", "0", "0", "0">>, <<"a", "b", "c">>}}

----------------------------------------------------------------------------
(* The lint pass.                                                          *)

MaxPasses == 3

\* main registers the config rule and, in the build that has it, the
\* comments rule after it
Builds == {<<configRule>>, <<configRule, commentsRule>>}

\* the config rule checks the comment of retention.ms in the build that has
\* no comments rule
ChecksComments(b) == ~Contains(b, commentsRule)

IssuesOf(rule, seq) == SelectSeq(seq, LAMBDA i : i.rule = rule)

Fixable(seq) == SelectSeq(seq, LAMBDA i : i.fix.op # "none")

\* the Fixes of Issues, in the order of the Issues
FixesOf(seq) == [k \in 1..Len(Fixable(seq)) |-> Fixable(seq)[k].fix]

\* a Check that fails on a Fix has recorded the Issues before it
Emitted(r, keep) ==
    LET e == EmitIssueWithFix(<<>>, r.issues, keep)
    IN  IF e.err THEN e ELSE r

\* MSKTopicConfigRule.validateTopicConfig, as one function
validateTopicConfig(t, b, keep) ==
    LET repl == validateReplicationFactor(t)
        km == constructConfigKeyToPairMap(t)
    IN  Emitted(IF ~t.hasConfig
                THEN [issues |-> repl \o validateAndGetConfigAttr(t), err |-> FALSE]
                ELSE IF km.err THEN [issues |-> repl, err |-> TRUE]
                ELSE [issues |-> repl \o validateCompressionType(t, km.map)
                                    \o validateCleanupPolicyConfig(t, km.map).issues
                                    \o (IF ChecksComments(b)
                                        THEN validateConfigValuesInComments_configRule(t, km.map)
                                        ELSE <<>>),
                      err |-> FALSE],
                keep)

\* one turn of the loop over the blocks: the first error ends the loop
ThenRule(sofar, r) ==
    IF sofar.err THEN sofar
    ELSE [issues |-> sofar.issues \o r.issues, err |-> r.err]

\* for _, topicResource := range resourceContents.Blocks {
\*     if err := r.validateTopicConfig(runner, topicResource); err != nil { return err } }
ConfigRuleOn(ts, b, keep) ==
    LET run[i \in 0..Len(ts)] ==
            IF i = 0 THEN [issues |-> <<>>, err |-> FALSE]
            ELSE ThenRule(run[i - 1], validateTopicConfig(ts[i], b, keep))
    IN  run[Len(ts)]

CommentsRuleOn(ts, keep) ==
    LET run[i \in 0..Len(ts)] ==
            IF i = 0 THEN [issues |-> <<>>, err |-> FALSE]
            ELSE ThenRule(run[i - 1], Emitted(validateTopicConfigComments(ts[i]), keep))
    IN  run[Len(ts)]

\* the first step of a run: the Check of the first enabled rule
FirstStep(rules) ==
    IF Contains(rules, configRule) THEN "Check" ELSE "validateTopicConfigComments"

\* the step after the Check of the config rule and the changes it made
AfterConfigRule(rules) ==
    IF Contains(rules, commentsRule) THEN "validateTopicConfigComments" ELSE "done"

\* the text of the file once the Fixes of a Check are applied and the file
\* is formatted: every resource is rewritten, and a resource moves with the
\* lines added to or taken from the resources before it
ChangedFile(ts, fixes) ==
    LET file[i \in 0..Len(ts)] ==
            IF i = 0 THEN <<>>
            ELSE file[i - 1]
                     \o <<Below(file[i - 1],
                                FormatChanges(Changes(ts[i], fixes)))>>
    IN  file[Len(ts)]

\* the step after the last call of the config rule's Check: with --fix the
\* changes of the rule are applied before the next rule runs
ConfigRuleChecked(rules, keep, seq) ==
    IF keep /\ Fixable(seq) # <<>> THEN "applyConfigRuleChanges"
    ELSE AfterConfigRule(rules)

Runs ==
    {[build |-> <<configRule>>, enabled |-> <<configRule>>, fixing |-> TRUE],
     [build |-> <<configRule, commentsRule>>, enabled |-> <<configRule, commentsRule>>,
      fixing |-> FALSE],
     [build |-> <<configRule, commentsRule>>, enabled |-> <<configRule, commentsRule>>,
      fixing |-> TRUE],
     [build |-> <<configRule, commentsRule>>, enabled |-> <<commentsRule>>,
      fixing |-> TRUE]}

\* the topics followed in a run
TopicsOf(run) ==
    IF run.enabled = <<commentsRule>>
    THEN CommentTopics \cup SpaceTopics \cup AttrTopics
    ELSE IF ~run.fixing
    THEN ConfigTopics \cup AttrTopics \cup CommentTopics \cup SpaceTopics
             \cup DurationTopics \cup ByteTopics
    ELSE CompressedTopics \cup AttrTopics

Init ==
    /\ \E run \in Runs :
          /\ build = run.build /\ enabled = run.enabled /\ fixing = run.fixing
          /\ \/ topic \in TopicsOf(run) /\ others = <<>>
             \/ /\ Contains(run.enabled, configRule)
                /\ others \in {<<o>> : o \in OtherTopics}
                /\ topic \in {Below(others, t) : t \in ModuleTopics}
          /\ pc = FirstStep(run.enabled)
    /\ otherIssues = <<>>
    /\ issues = <<>>
    /\ calls = <<>>
    /\ cleanupPolicy = <<>>
    /\ err = FALSE
    /\ pass = 1
    /\ applied = <<>>

\* MSKTopicConfigRule.Check on the topics before `topic`: an error of
\* validateTopicConfig is returned at once
CheckEarlierTopics ==
    /\ pc = "Check"
    /\ \E earlier \in {ConfigRuleOn(others, build, fixing)} :
          /\ otherIssues' = otherIssues \o earlier.issues
          /\ err' = earlier.err
          /\ pc' = IF earlier.err THEN "done" ELSE "validateReplicationFactor"
    /\ UNCHANGED <<topic, build, enabled, fixing, issues, calls, cleanupPolicy, pass,
                   applied, others>>

\* a call of validateTopicConfig that emits the Issues `new` and goes on to
\* `next`, unless a Fix fails
Step(new, next) ==
    \E e \in {EmitIssueWithFix(issues, new, fixing)} :
        /\ issues' = issues \o e.issues
        /\ err' = e.err
        /\ pc' = IF e.err THEN "done"
                 ELSE IF next = "checked"
                 THEN ConfigRuleChecked(enabled, fixing, otherIssues \o issues')
                 ELSE next

\* MSKTopicConfigRule.validateTopicConfig, step by step
ValidateReplicationFactor ==
    /\ pc = "validateReplicationFactor"
    /\ Step(validateReplicationFactor(topic), "validateAndGetConfigAttr")
    /\ UNCHANGED <<topic, build, enabled, fixing, calls, cleanupPolicy, pass, applied,
                   others, otherIssues>>

\* a variant that goes on to the checks of the config in every case
ValidateAndGetConfigAttr_GoOn ==
    /\ pc = "validateAndGetConfigAttr"
    /\ Step(validateAndGetConfigAttr(topic), "constructConfigKeyToPairMap")
    /\ UNCHANGED <<topic, build, enabled, fixing, calls, cleanupPolicy, pass, applied,
                   others, otherIssues>>

\* without a config attribute the config rule is done with the topic
ValidateAndGetConfigAttr ==
    /\ pc = "validateAndGetConfigAttr"
    /\ Step(validateAndGetConfigAttr(topic),
            IF topic.hasConfig THEN "constructConfigKeyToPairMap" ELSE "checked")
    /\ UNCHANGED <<topic, build, enabled, fixing, calls, cleanupPolicy, pass, applied,
                   others, otherIssues>>

\* an error of the rule's Check ends the run
ConstructConfigKeyToPairMap ==
    /\ pc = "constructConfigKeyToPairMap"
    /\ err' = constructConfigKeyToPairMap(topic).err
    /\ pc' = IF err' THEN "done" ELSE "validateCompressionType"
    /\ UNCHANGED <<topic, build, enabled, fixing, issues, calls, cleanupPolicy, pass,
                   applied, others, otherIssues>>

ConfigMap == constructConfigKeyToPairMap(topic).map

ValidateCompressionType ==
    /\ pc = "validateCompressionType"
    /\ Step(validateCompressionType(topic, ConfigMap), "validateCleanupPolicyConfig")
    /\ UNCHANGED <<topic, build, enabled, fixing, calls, cleanupPolicy, pass, applied,
                   others, otherIssues>>

ValidateCleanupPolicyConfig ==
    /\ pc = "validateCleanupPolicyConfig"
    /\ \E r \in {validateCleanupPolicyConfig(topic, ConfigMap)} :
          /\ Step(r.issues, IF ChecksComments(build) THEN "validateConfigValuesInComments"
                            ELSE "checked")
          /\ calls' = calls \o r.calls
          /\ cleanupPolicy' = r.policy
    /\ UNCHANGED <<topic, build, enabled, fixing, pass, applied, others, otherIssues>>

\* the last call of validateTopicConfig in the build without comments rule
ValidateConfigValuesInComments ==
    /\ pc = "validateConfigValuesInComments"
    /\ Step(validateConfigValuesInComments_configRule(topic, ConfigMap), "checked")
    /\ UNCHANGED <<topic, build, enabled, fixing, calls, cleanupPolicy, pass, applied,
                   others, otherIssues>>

\* the host after the Check of a rule, with --fix: the changes of the rule
\* to all the resources of the file are formatted and applied, and the next
\* rule reads the changed text
ApplyConfigRuleChanges ==
    /\ pc = "applyConfigRuleChanges"
    /\ \E file \in {ChangedFile(others \o <<topic>>,
                                FixesOf(IssuesOf(configRule, otherIssues \o issues)))} :
          /\ others' = SubSeq(file, 1, Len(others))
          /\ topic' = file[Len(file)]
    /\ pc' = AfterConfigRule(enabled)
    /\ UNCHANGED <<build, enabled, fixing, issues, calls, cleanupPolicy, err, pass,
                   applied, otherIssues>>

\* MSKTopicConfigCommentsRule.Check, registered after the config rule
ValidateTopicConfigComments ==
    /\ pc = "validateTopicConfigComments"
    /\ \E earlier \in {CommentsRuleOn(others, fixing)},
          own \in {Emitted(validateTopicConfigComments(topic), fixing)} :
          /\ otherIssues' = otherIssues \o earlier.issues
          /\ IF earlier.err
             THEN err' = TRUE /\ issues' = issues
             ELSE issues' = issues \o own.issues /\ err' = own.err
          /\ pc' = IF /\ ~err' /\ fixing
                      /\ Fixable(IssuesOf(commentsRule, otherIssues' \o issues')) # <<>>
                   THEN "applyCommentsRuleChanges" ELSE "done"
    /\ UNCHANGED <<topic, build, enabled, fixing, calls, cleanupPolicy, pass, applied,
                   others>>

ApplyCommentsRuleChanges ==
    /\ pc = "applyCommentsRuleChanges"
    /\ \E file \in {ChangedFile(others \o <<topic>>,
                                FixesOf(IssuesOf(commentsRule, otherIssues \o issues)))} :
          /\ others' = SubSeq(file, 1, Len(others))
          /\ topic' = file[Len(file)]
    /\ pc' = "done"
    /\ UNCHANGED <<build, enabled, fixing, issues, calls, cleanupPolicy, err, pass,
                   applied, otherIssues>>

\* tflint --fix is run again on the text the last run wrote
RunAgain ==
    /\ pc = "done"
    /\ fixing
    /\ ~err
    /\ pass < MaxPasses
    /\ Fixable(otherIssues \o issues) # <<>>
    /\ applied' = Fixable(issues)
    /\ pass' = pass + 1
    /\ pc' = FirstStep(enabled)
    /\ issues' = <<>>
    /\ otherIssues' = <<>>
    /\ calls' = <<>>
    /\ cleanupPolicy' = <<>>
    /\ UNCHANGED <<topic, build, enabled, fixing, err, others>>

Next ==
    \/ CheckEarlierTopics
    \/ ValidateReplicationFactor
    \/ ValidateAndGetConfigAttr
    \/ ConstructConfigKeyToPairMap
    \/ ValidateCompressionType
    \/ ValidateCleanupPolicyConfig
    \/ ValidateConfigValuesInComments
    \/ ApplyConfigRuleChanges
    \/ ValidateTopicConfigComments
    \/ ApplyCommentsRuleChanges
    \/ RunAgain

Spec == Init /\ [][Next]_vars

----------------------------------------------------------------------------
(* Reading the linted text, for the properties below.                      *)

LineIdx(key) ==
    CHOOSE i \in 1..Len(topic.config) :
        topic.config[i].kind = "prop" /\ topic.config[i].key = key

Present(key) ==
    \E i \in 1..Len(topic.config) :
        topic.config[i].kind = "prop" /\ topic.config[i].key = key

Val(key) == topic.config[LineIdx(key)].val

Parseable(key) == Present(key) /\ Atoi(Val(key)).ok

ConfigSteps ==
    {"Check", "validateReplicationFactor", "validateAndGetConfigAttr",
     "constructConfigKeyToPairMap", "validateCompressionType",
     "validateCleanupPolicyConfig", "validateConfigValuesInComments",
     "applyConfigRuleChanges"}

\* `topic` is the text the config rule read in this run, at the place where
\* the rule read it: no change has been applied to the file
ConfigRuleRead ==
    ~fixing \/ pc \in ConfigSteps \/ Fixable(otherIssues \o issues) = <<>>

\* validateCleanupPolicyConfig has run on `topic` in this run
Checked == calls # <<>> /\ ConfigRuleRead

\* the Check of the config rule has returned
ConfigRuleEnded == Contains(enabled, configRule) /\ pc \notin (ConfigSteps \ {"applyConfigRuleChanges"})

IssuesBy(fns) == {k \in 1..Len(issues) : issues[k].by \in fns}

ConfigRuleIssues == {k \in 1..Len(issues) : issues[k].rule = configRule}

CleanupIssues == IssuesBy({"getAndValidateCleanupPolicyValue"})
RetentionTimeIssues ==
    IssuesBy({"getAndValidateRetentionTime", "validateRetentionTimeNotDefined"})
TieredIssues == IssuesBy({"validateTieredStorageEnabled", "validateTieredStorageDisabled"})
LocalIssues ==
    IssuesBy({"validateLocalRetentionDefined", "validateLocalRetentionNotDefined"})
RetentionRuleIssues == RetentionTimeIssues \cup TieredIssues \cup LocalIssues

EffectiveDelete ==
    ~Present("cleanup.policy") \/ Val("cleanup.policy") = <<"d", "e", "l", "e", "t", "e">>

\* retention.ms is an integer of at least 3 days, or a negative one
LongRetention ==
    /\ Parseable("retention.ms")
    /\ \/ IntGeNat(Atoi(Val("retention.ms")).val, 259200000)
       \/ Atoi(Val("retention.ms")).val.neg

\* retention.ms is an integer from 0 to less than 3 days
ShortRetention == Parseable("retention.ms") /\ ~LongRetention

RemoteTrue ==
    Present("remote.storage.enable") /\ Val("remote.storage.enable") = <<"t", "r", "u", "e">>

\* the text a Fix inserts at the start of the config block for a property
Inserted(key, val) == <<"\n", "\"", key, "\" = \"">> \o val \o <<"\"">>

AtConfigStart(fix, text) ==
    fix = [op |-> "insert_after", range |-> ConfigStartRange(topic), text |-> text]

\* the span from the start of the key to the end of the value of a property
PairSpan(key) ==
    Range(LineOf(topic, LineIdx(key)), ConfigIndentCol,
          LineOf(topic, LineIdx(key)), ValEndCol(topic.config[LineIdx(key)]))

PosLt(l1, c1, l2, c2) == l1 < l2 \/ (l1 = l2 /\ c1 < c2)

SharesText(a, b) == PosLt(a.sl, a.sc, b.el, b.ec) /\ PosLt(b.sl, b.sc, a.el, a.ec)

\* the range holds no part of a comment and no part of another property
CoversOnly(range, key) ==
    \A i \in 1..Len(topic.config) :
        /\ HasComment(topic.config[i]) => ~SharesText(range, CommentToken(topic, i).range)
        /\ (topic.config[i].kind = "prop" /\ topic.config[i].key # key)
              => ~SharesText(range, PairSpan(topic.config[i].key))

Cites(message, reason) ==
    \E j \in 1..Len(message) :
        j + Len(reason) - 1 <= Len(message)
        /\ SubSeq(message, j, j + Len(reason) - 1) = reason

DeletesPair(k, key) == issues[k].fix = [op |-> "remove", range |-> PairSpan(key), text |-> <<>>]

----------------------------------------------------------------------------
(* Properties of the retention / tiered storage checks.                    *)

\* C1, as stated: with policy delete and a retention of 3 days or more (or
\* negative), the retention checks emit no Issue exactly when
\* remote.storage.enable is "true" and local.retention.ms is present.
C1_AsStated ==
    (Checked /\ EffectiveDelete /\ LongRetention)
        => ((RetentionRuleIssues = {})
              <=> (RemoteTrue /\ Present("local.retention.ms")))

\* C1, amended: with policy delete and a retention of 3 days or more (or
\* negative), the retention checks emit no Issue exactly when
\* remote.storage.enable is "true" and local.retention.ms is present and
\* parses as an integer.
C1_NoIssueIffTieredAndLocalParseable ==
    (Checked /\ EffectiveDelete /\ LongRetention)
        => ((RetentionRuleIssues = {})
              <=> (RemoteTrue /\ Parseable("local.retention.ms")))

C1_Witness ==
    /\ Checked /\ EffectiveDelete /\ LongRetention
    /\ RemoteTrue /\ Parseable("local.retention.ms")
    /\ RetentionRuleIssues = {}

RetentionChecksRan ==
    \E k \in 1..Len(calls) : calls[k] # "getAndValidateCleanupPolicyValue"

\* C2: when the retention checks run the resolved policy is delete or
\* compact; an absent cleanup.policy resolves to delete with exactly one
\* Issue whose Fix inserts "cleanup.policy" = "delete" at the start of the
\* config block; a present delete or compact resolves to itself, no Issue.
C2_CleanupPolicyResolved ==
    Checked =>
        /\ RetentionChecksRan => cleanupPolicy \in {<<"d", "e", "l", "e", "t", "e">>, <<"c", "o", "m", "p", "a", "c", "t">>}
        /\ ~Present("cleanup.policy") =>
              /\ cleanupPolicy = <<"d", "e", "l", "e", "t", "e">>
              /\ RetentionChecksRan
              /\ Cardinality(CleanupIssues) = 1
              /\ \A k \in CleanupIssues :
                    AtConfigStart(issues[k].fix, Inserted("cleanup.policy", <<"d", "e", "l", "e", "t", "e">>))
        /\ (Present("cleanup.policy")
               /\ Val("cleanup.policy") \in {<<"d", "e", "l", "e", "t", "e">>, <<"c", "o", "m", "p", "a", "c", "t">>}) =>
              /\ cleanupPolicy = Val("cleanup.policy")
              /\ RetentionChecksRan
              /\ CleanupIssues = {}

C2_Witness ==
    /\ Checked /\ ~Present("cleanup.policy") /\ RetentionChecksRan
    /\ cleanupPolicy = <<"d", "e", "l", "e", "t", "e">> /\ Cardinality(CleanupIssues) = 1

InvalidCleanupPolicy ==
    Present("cleanup.policy") /\ Val("cleanup.policy") \notin {<<"d", "e", "l", "e", "t", "e">>, <<"c", "o", "m", "p", "a", "c", "t">>}

\* C3: a cleanup.policy other than delete and compact gets exactly one
\* Issue, without a Fix, and no retention, tiered storage or local
\* retention Issue, whatever the other properties are.
C3_InvalidPolicyIsTerminal ==
    (Checked /\ InvalidCleanupPolicy) =>
        /\ Cardinality(CleanupIssues) = 1
        /\ \A k \in CleanupIssues : issues[k].fix.op = "none"
        /\ RetentionRuleIssues = {}

C3_Witness ==
    /\ Checked /\ InvalidCleanupPolicy /\ Cardinality(CleanupIssues) = 1
    /\ Present("retention.ms") /\ RemoteTrue /\ Present("local.retention.ms")

\* C4: with policy delete and a retention of at least 259200000 or below 0,
\* an absent remote.storage.enable gets one Issue whose Fix inserts
\* "remote.storage.enable" = "true", a value other than "true" gets one
\* Issue whose Fix replaces the value by "true", and "true" gets none.
C4_TieredStorageMustBeEnabled ==
    (Checked /\ EffectiveDelete /\ LongRetention) =>
        /\ ~Present("remote.storage.enable") =>
              /\ Cardinality(TieredIssues) = 1
              /\ \A k \in TieredIssues :
                    AtConfigStart(issues[k].fix,
                                  Inserted("remote.storage.enable", <<"t", "r", "u", "e">>))
        /\ (Present("remote.storage.enable") /\ ~RemoteTrue) =>
              /\ Cardinality(TieredIssues) = 1
              /\ \A k \in TieredIssues :
                    issues[k].fix =
                        [op |-> "replace",
                         range |-> ValRangeOf(topic, LineIdx("remote.storage.enable")),
                         text |-> <<"\"">> \o <<"t", "r", "u", "e">> \o <<"\"">>]
        /\ RemoteTrue => TieredIssues = {}

C4_Witness ==
    /\ Checked /\ EffectiveDelete
    /\ Present("retention.ms") /\ Val("retention.ms") = <<"2", "5", "9", "2", "0", "0", "0", "0", "0">>
    /\ Present("remote.storage.enable") /\ ~RemoteTrue
    /\ Cardinality(TieredIssues) = 1

LocalRetentionDefault ==
    <<"\n", "#", " ", "k", "e", "e", "p", " ", "d", "a", "t", "a", " ", "i", "n", " ", "h", "o", "t", " ", "s", "t", "o", "r", "a", "g", "e", " ", "f", "o", "r", " ", "1", " ", "d", "a", "y", "\n", " ", " ", " ", " ", " ">>
        \o <<"\"", "local.retention.ms", "\" = \"">> \o <<"8", "6", "4", "0", "0", "0", "0", "0">> \o <<"\"">>

\* C5: with policy delete and a retention of 3 days or more (or negative),
\* an absent local.retention.ms gets one Issue whose Fix inserts it with the
\* default 86400000, an unparseable one gets one Issue without a Fix, a
\* parseable one gets none; whatever remote.storage.enable is.
C5_LocalRetentionMustBeDefined ==
    (Checked /\ EffectiveDelete /\ LongRetention) =>
        /\ ~Present("local.retention.ms") =>
              /\ Cardinality(LocalIssues) = 1
              /\ \A k \in LocalIssues : AtConfigStart(issues[k].fix, LocalRetentionDefault)
        /\ (Present("local.retention.ms") /\ ~Parseable("local.retention.ms")) =>
              /\ Cardinality(LocalIssues) = 1
              /\ \A k \in LocalIssues : issues[k].fix.op = "none"
        /\ Parseable("local.retention.ms") => LocalIssues = {}

C5_Witness ==
    /\ Checked /\ EffectiveDelete /\ LongRetention
    /\ ~RemoteTrue /\ ~Present("local.retention.ms")
    /\ Cardinality(LocalIssues) = 1

LessThan3Days == <<"less than ", "3", " days retention">>

\* C6: with policy delete and a retention from 0 to less than 259200000,
\* remote.storage.enable gets an Issue exactly when it is "true" and
\* local.retention.ms exactly when it is present; each cites "less than 3
\* days retention" and its Fix deletes that key/value pair; a retention of
\* 172800000 with remote.storage.enable "true" and no local.retention.ms
\* gets exactly one Issue.
C6_ShortRetentionForbidsTieredStorage ==
    (Checked /\ EffectiveDelete /\ ShortRetention) =>
        /\ Cardinality(TieredIssues) = (IF RemoteTrue THEN 1 ELSE 0)
        /\ Cardinality(LocalIssues) = (IF Present("local.retention.ms") THEN 1 ELSE 0)
        /\ \A k \in TieredIssues :
              /\ Cites(issues[k].message, LessThan3Days)
              /\ DeletesPair(k, "remote.storage.enable")
        /\ \A k \in LocalIssues :
              /\ Cites(issues[k].message, LessThan3Days)
              /\ DeletesPair(k, "local.retention.ms")
        /\ (Val("retention.ms") = <<"1", "7", "2", "8", "0", "0", "0", "0", "0">> /\ RemoteTrue
               /\ ~Present("local.retention.ms"))
              => Cardinality(RetentionRuleIssues) = 1

C6_Witness ==
    /\ Checked /\ EffectiveDelete
    /\ Present("retention.ms") /\ Val("retention.ms") = <<"1", "7", "2", "8", "0", "0", "0", "0", "0">>
    /\ RemoteTrue /\ ~Present("local.retention.ms")
    /\ Cardinality(RetentionRuleIssues) = 1

CompactPolicy == Present("cleanup.policy") /\ Val("cleanup.policy") = <<"c", "o", "m", "p", "a", "c", "t">>

\* C7: with policy compact there is exactly one Issue for each of
\* retention.ms, remote.storage.enable = "true" and local.retention.ms that
\* is present, and no other; its Fix deletes from the start of the key to
\* the end of the value, and covers no comment and no other property.
C7_CompactForbidsRetention ==
    (Checked /\ CompactPolicy) =>
        /\ Cardinality(RetentionTimeIssues) = (IF Present("retention.ms") THEN 1 ELSE 0)
        /\ Cardinality(TieredIssues) = (IF RemoteTrue THEN 1 ELSE 0)
        /\ Cardinality(LocalIssues) = (IF Present("local.retention.ms") THEN 1 ELSE 0)
        /\ \A k \in RetentionTimeIssues :
              DeletesPair(k, "retention.ms") /\ CoversOnly(issues[k].fix.range, "retention.ms")
        /\ \A k \in TieredIssues :
              /\ DeletesPair(k, "remote.storage.enable")
              /\ CoversOnly(issues[k].fix.range, "remote.storage.enable")
        /\ \A k \in LocalIssues :
              /\ DeletesPair(k, "local.retention.ms")
              /\ CoversOnly(issues[k].fix.range, "local.retention.ms")

C7_Witness ==
    /\ Checked /\ CompactPolicy
    /\ Present("retention.ms") /\ topic.config[LineIdx("retention.ms")].hasTrail
    /\ Present("local.retention.ms")
    /\ Cardinality(RetentionRuleIssues) = 2

\* C8: with policy delete, given or defaulted, and no retention.ms there is
\* exactly one retention Issue, whose Fix inserts "retention.ms" = "???",
\* and no tiered storage or local retention Issue; a topic without
\* cleanup.policy and retention.ms, with compression.type "zstd" and
\* replication_factor 3, gets exactly two Issues of the rule, none of them
\* on the replication factor or the compression type.
C8_MissingRetentionTime ==
    (Checked /\ EffectiveDelete /\ ~Present("retention.ms")) =>
        /\ Cardinality(RetentionTimeIssues) = 1
        /\ \A k \in RetentionTimeIssues :
              AtConfigStart(issues[k].fix, Inserted("retention.ms", <<"?", "?", "?">>))
        /\ TieredIssues = {} /\ LocalIssues = {}
        /\ (~Present("cleanup.policy") /\ topic.hasRepl /\ topic.replFactor = 3
               /\ Present("compression.type") /\ Val("compression.type") = <<"z", "s", "t", "d">>
               /\ ConfigRuleEnded)
              => /\ Cardinality(ConfigRuleIssues) = 2
                 /\ IssuesBy({"validateReplicationFactor", "reportMissingReplicationFactor",
                              "validateCompressionType"}) = {}

C8_Witness ==
    /\ Checked /\ ~Present("cleanup.policy") /\ ~Present("retention.ms")
    /\ topic.hasRepl /\ topic.replFactor = 3
    /\ Present("compression.type") /\ Val("compression.type") = <<"z", "s", "t", "d">>
    /\ ConfigRuleEnded /\ Cardinality(ConfigRuleIssues) = 2

\* C9: with policy delete and a retention.ms that does not parse as an
\* integer there is exactly one Issue, on the retention.ms value, without a
\* Fix, and no tiered storage or local retention Issue, even when
\* remote.storage.enable or local.retention.ms are present.
C9_UnparseableRetentionTime ==
    (Checked /\ EffectiveDelete /\ Present("retention.ms") /\ ~Parseable("retention.ms")) =>
        /\ Cardinality(RetentionTimeIssues) = 1
        /\ \A k \in RetentionTimeIssues :
              /\ issues[k].range = ValRangeOf(topic, LineIdx("retention.ms"))
              /\ issues[k].fix.op = "none"
        /\ TieredIssues = {} /\ LocalIssues = {}

C9_Witness ==
    /\ Checked /\ EffectiveDelete /\ Present("retention.ms") /\ ~Parseable("retention.ms")
    /\ RemoteTrue /\ Present("local.retention.ms")
    /\ Cardinality(RetentionRuleIssues) = 1

----------------------------------------------------------------------------
(* Properties of the comments rule.                                        *)

CommentIssuesOn(key) ==
    {k \in 1..Len(issues) : issues[k].rule = commentsRule /\ issues[k].key = key}

\* `topic` is the text the comments rule read in this run
CommentsRuleRead ==
    \/ pc = "applyCommentsRuleChanges"
    \/ /\ pc = "done"
       /\ ~fixing \/ Fixable(IssuesOf(commentsRule, otherIssues \o issues)) = <<>>

\* the comments rule alone has run again, on the text that the Fixes of
\* the Issues `applied` of its last run produced
Rerun ==
    /\ enabled = <<commentsRule>> /\ pass > 1 /\ ~err
    /\ pc \in {"applyCommentsRuleChanges", "done"}

\* C10, as stated: once the Fixes of the Issues of the comments rule are
\* applied, the next run of the rule emits no Issue for a property that
\* had one.
C10_AsStated ==
    Rerun => \A k \in 1..Len(applied) : CommentIssuesOn(applied[k].key) = {}

TimeKeys == {configTimeValueCommentInfos[i].key : i \in 1..Len(configTimeValueCommentInfos)}
ByteKeys == {configByteValueCommentInfos[i].key : i \in 1..Len(configByteValueCommentInfos)}

InfoOf(key) ==
    IF key \in TimeKeys
    THEN configTimeValueCommentInfos[
             CHOOSE i \in 1..Len(configTimeValueCommentInfos) :
                 configTimeValueCommentInfos[i].key = key]
    ELSE configByteValueCommentInfos[
             CHOOSE i \in 1..Len(configByteValueCommentInfos) :
                 configByteValueCommentInfos[i].key = key]

\* the canonical comment of a present annotated property, <<>> if none
Canonical(key) ==
    IF key \in TimeKeys THEN buildDurationComment(topic, ConfigMap, InfoOf(key)).msg
    ELSE buildDataSizeComment(topic, ConfigMap, InfoOf(key)).msg

\* the annotated properties the comments rule looks up a comment for
Reconciled == {key \in TimeKeys \cup ByteKeys : Present(key) /\ Canonical(key) # <<>>}

Bound(key) == getExistingComment(topic, ConfigMap, key)

\* the comments rule has run on `topic`
Reconciliation == Contains(enabled, commentsRule) /\ ~err /\ CommentsRuleRead

\* C11, as stated: no comment token is bound to two properties of a pass; a
\* comment trailing the value of the property on line n-1 is not bound to
\* the property on line n.
C11_AsStated ==
    Reconciliation =>
        \A k1 \in Reconciled : \A k2 \in Reconciled \ {k1} :
            (Bound(k1).found /\ Bound(k2).found)
                => Bound(k1).token.range # Bound(k2).token.range

\* the Issues of the comment reconciliation of one property
ReportIssuesOn(key) ==
    {k \in CommentIssuesOn(key) : issues[k].by = "reportHumanReadableComment"}

NoComment(key) == ~Bound(key).found
StaleComment(key) ==
    Bound(key).found /\ TrimSpace(Bound(key).token.bytes) # Canonical(key)
CurrentComment(key) ==
    Bound(key).found /\ TrimSpace(Bound(key).token.bytes) = Canonical(key)

\* C12: the reconciliation of a property that has a canonical comment ends
\* in one of three ways: without a bound comment, one Issue whose Fix inserts
\* the canonical comment after the value; with a bound comment whose trimmed
\* text differs, one Issue whose Fix replaces the range of that comment;
\* with a bound comment whose trimmed text is the canonical one, no Issue.
C12_ThreeOutcomes ==
    Reconciliation =>
        \A key \in Reconciled :
            /\ NoComment(key) =>
                  /\ Cardinality(ReportIssuesOn(key)) = 1
                  /\ \A k \in ReportIssuesOn(key) :
                        /\ issues[k].fix.op = "insert_after"
                        /\ issues[k].fix.range = ValRangeOf(topic, LineIdx(key))
                        /\ issues[k].fix.text = Canonical(key)
            /\ StaleComment(key) =>
                  /\ Cardinality(ReportIssuesOn(key)) = 1
                  /\ \A k \in ReportIssuesOn(key) :
                        /\ issues[k].fix.op = "replace"
                        /\ issues[k].fix.range = Bound(key).token.range
                        /\ issues[k].fix.text = Canonical(key) \o <<"\n">>
            /\ CurrentComment(key) => ReportIssuesOn(key) = {}

\* one topic where the three outcomes happen side by side
C12_Witness ==
    /\ Reconciliation
    /\ \E k1, k2, k3 \in Reconciled :
          /\ NoComment(k1) /\ ReportIssuesOn(k1) # {}
          /\ StaleComment(k2) /\ ReportIssuesOn(k2) # {}
          /\ CurrentComment(k3) /\ ReportIssuesOn(k3) = {}

----------------------------------------------------------------------------
(* The human readable magnitude of a duration.                             *)

\* the units of a duration, the largest first, in seconds
UnitsOfTime ==
    << [seconds |-> DigitsToNat(DivSmall(millisInOneYear.mag, 10, 1000).quot, 10, 0),
        one |-> <<"y", "e", "a", "r">>, many |-> <<"y", "e", "a", "r", "s">>],
       [seconds |-> DigitsToNat(DivSmall(millisInOneMonth.mag, 10, 1000).quot, 10, 0),
        one |-> <<"m", "o", "n", "t", "h">>, many |-> <<"m", "o", "n", "t", "h", "s">>],
       [seconds |-> millisInOneDay \div 1000, one |-> <<"d", "a", "y">>, many |-> <<"d", "a", "y", "s">>],
       [seconds |-> millisInOneHour \div 1000, one |-> <<"h", "o", "u", "r">>, many |-> <<"h", "o", "u", "r", "s">>] >>

\* the decimal digits of the tenths t that d milliseconds round to, half-up,
\* in a unit counted in seconds: t - 1/2 <= 10 * d / unit < t + 1/2, that
\* is t = (d + 50 * seconds) \div (100 * seconds), in exact arithmetic
Tenths(d, seconds) ==
    DivSmall(DivSmall(MulSmall(d.mag, 10, 1, 50 * seconds), 10, 100).quot, 10, seconds).quot

\* the tenths make 1 or more
Whole(t) == Len(t) >= 2

\* 15 tenths read 1.5, 20 tenths read 2
FormatTenths(t) ==
    DecimalText(SubSeq(t, 1, Len(t) - 1))
        \o (IF t = <<>> \/ t[Len(t)] = 0 THEN <<>>
            ELSE <<".">> \o DecimalText(<<t[Len(t)]>>))

\* the magnitude of d in the i-th unit, followed by the name of the unit
InUnit(d, i) ==
    FormatTenths(Tenths(d, UnitsOfTime[i].seconds)) \o <<" ">>
        \o (IF Tenths(d, UnitsOfTime[i].seconds) = <<1, 0>> THEN UnitsOfTime[i].one
            ELSE UnitsOfTime[i].many)

\* the i-th unit is the largest one in which d rounds to 1 or more
LargestUnit(d, i) ==
    /\ Whole(Tenths(d, UnitsOfTime[i].seconds))
    /\ \A j \in 1..(i - 1) : ~Whole(Tenths(d, UnitsOfTime[j].seconds))

\* d rounds to less than 1 in every unit
BelowEveryUnit(d) ==
    \A i \in 1..Len(UnitsOfTime) : ~Whole(Tenths(d, UnitsOfTime[i].seconds))

\* the parsed value of the property
Parsed(key) == Atoi(Val(key)).val

\* the annotated durations of the topic that are integers from 0 on
Durations ==
    {key \in TimeKeys \cap Reconciled :
        Val(key) # InfoOf(key).infiniteValue /\ ~Parsed(key).neg}

\* 2^n, in decimal digits
PowerOf2(n) == BitsToDecimal(<<1>> \o Zeros(n))

\* below 2^52 ms the two roundings of the float64 arithmetic, relative
\* errors of 2^-53 each, move 10 * d / unit by less than the 10 / unit that
\* separate a duration from a tie one millisecond away
ExactDurations ==
    {key \in Durations : ~NatLe(PowerOf2(mantissaBits - 1), Parsed(key).mag)}

\* the text the comments rule wants next to the property: the text of its
\* Fix, or the text of the comment it accepted
Wanted(key) ==
    IF CurrentComment(key) THEN TrimSpace(Bound(key).token.bytes)
    ELSE LET k == CHOOSE k \in ReportIssuesOn(key) : TRUE
         IN  TrimSpace(issues[k].fix.text)

DurationComment(key, phrase) ==
    <<"#", " ">> \o InfoOf(key).baseComment \o <<" ", "f", "o", "r", " ">> \o phrase

\* C13, as stated: for every duration from 0 on, the comment gives the
\* duration in the largest unit among year, month, day, hour in which it
\* rounds, half-up to one decimal, to 1 or more.
C13_AsStated ==
    Reconciliation =>
        \A key \in Durations :
            \E i \in 1..Len(UnitsOfTime) :
                /\ LargestUnit(Parsed(key), i)
                /\ Wanted(key) = DurationComment(key, InUnit(Parsed(key), i))

\* C13, amended: the comment of a duration below 2^52 ms gives it in the
\* largest unit among year, month, day, hour in which it rounds, half-up to
\* one decimal, to 1 or more, and in hours when it rounds to less than 1 in
\* every unit; the documented examples read 1 day, 2 months, 1 year and
\* 6 hours.
C13_LargestUnitOrHours ==
    Reconciliation =>
        /\ \A key \in ExactDurations :
              /\ \A i \in 1..Len(UnitsOfTime) :
                    LargestUnit(Parsed(key), i)
                        => Wanted(key) = DurationComment(key, InUnit(Parsed(key), i))
              /\ BelowEveryUnit(Parsed(key))
                    => Wanted(key)
                         = DurationComment(key, InUnit(Parsed(key), Len(UnitsOfTime)))
        /\ \A e \in DurationExamples :
              (Present(retentionTimeAttr) /\ Val(retentionTimeAttr) = e[1])
                  => Wanted(retentionTimeAttr) = <<"#", " ", "k", "e", "e", "p", " ", "d", "a", "t", "a", " ", "f", "o", "r", " ">> \o e[2]

\* a duration halfway between two decimals of a day is rounded up: 0.95 day
\* reads 1 day
C13_Witness ==
    /\ Reconciliation
    /\ Present(retentionTimeAttr) /\ Val(retentionTimeAttr) = <<"8", "2", "0", "8", "0", "0", "0", "0">>
    /\ retentionTimeAttr \in Durations
    /\ LargestUnit(Parsed(retentionTimeAttr), 3)
    /\ Wanted(retentionTimeAttr) = <<"#", " ", "k", "e", "e", "p", " ", "d", "a", "t", "a", " ", "f", "o", "r", " ", "1", " ", "d", "a", "y">>

----------------------------------------------------------------------------
(* Sentinel values.                                                        *)

\* the comments rule leaves the property with the comment `text`: it
\* accepted a bound comment that reads so, or its Fix writes it
Wants(key, text) ==
    \/ /\ Bound(key).found /\ TrimSpace(Bound(key).token.bytes) = text
       /\ ReportIssuesOn(key) = {}
    \/ \E k \in ReportIssuesOn(key) : TrimSpace(issues[k].fix.text) = text

\* the value of the property is the sentinel of its table entry
Infinite(key) == Present(key) /\ Val(key) = InfoOf(key).infiniteValue

\* C14: a duration property whose value is its sentinel ("-1" for
\* retention.ms, "-2" for local.retention.ms, "" for max.compaction.lag.ms)
\* gets the comment "<base> forever", a byte-size property whose value is
\* its sentinel gets "<base> unlimited"; the value is compared with the
\* sentinel before it is parsed, so the rule reports no invalid number.
C14_SentinelPhrase ==
    Reconciliation =>
        /\ \A key \in TimeKeys :
              Infinite(key) =>
                  /\ Wants(key, <<"#", " ">> \o InfoOf(key).baseComment \o <<" ", "f", "o", "r", "e", "v", "e", "r">>)
                  /\ CommentIssuesOn(key) = ReportIssuesOn(key)
        /\ \A key \in ByteKeys :
              Infinite(key) =>
                  /\ Wants(key, <<"#", " ">> \o InfoOf(key).baseComment \o <<" ", "u", "n", "l", "i", "m", "i", "t", "e", "d">>)
                  /\ CommentIssuesOn(key) = ReportIssuesOn(key)
        /\ InfoOf(retentionTimeAttr).infiniteValue = <<"-", "1">>
        /\ InfoOf(localRetentionTimeAttr).infiniteValue = <<"-", "2">>

\* retention.ms = "-1" and local.retention.ms = "-2" in one topic, the
\* second without a comment of its own
C14_Witness ==
    /\ Reconciliation
    /\ Present(retentionTimeAttr) /\ Val(retentionTimeAttr) = <<"-", "1">>
    /\ Present(localRetentionTimeAttr) /\ Val(localRetentionTimeAttr) = <<"-", "2">>
    /\ Wants(retentionTimeAttr, <<"#", " ", "k", "e", "e", "p", " ", "d", "a", "t", "a", " ", "f", "o", "r", "e", "v", "e", "r">>)
    /\ \E k \in ReportIssuesOn(localRetentionTimeAttr) :
          issues[k].fix.text = <<"#", " ", "k", "e", "e", "p", " ", "d", "a", "t", "a", " ", "i", "n", " ", "p", "r", "i", "m", "a", "r", "y", " ", "s", "t", "o", "r", "a", "g", "e", " ", "f", "o", "r", "e", "v", "e", "r">>

----------------------------------------------------------------------------
(* The human readable magnitude of a size.                                 *)

\* the units of a size, the largest first
UnitsOfBytes ==
    << [bytes |-> bytesInOneGB, name |-> <<"G", "B">>],
       [bytes |-> bytesInOneMB, name |-> <<"M", "B">>],
       [bytes |-> bytesInOneKB, name |-> <<"K", "B">>] >>

RECURSIVE DivPower1024(_, _)
\* ds \div unit, for a unit that is a power of 1024
DivPower1024(ds, unit) ==
    IF unit = 1 THEN ds
    ELSE DivPower1024(DivSmall(ds, 10, 1024).quot, unit \div 1024)

\* the decimal digits of the tenths t that b bytes round to, half-up, in a
\* unit: t - 1/2 <= 10 * b / unit < t + 1/2, that is
\* t = (10 * b + unit / 2) \div unit, in exact arithmetic
TenthsOfBytes(b, unit) == DivPower1024(MulSmall(b.mag, 10, 10, unit \div 2), unit)

LargestUnitOfBytes(b, i) ==
    /\ Whole(TenthsOfBytes(b, UnitsOfBytes[i].bytes))
    /\ \A j \in 1..(i - 1) : ~Whole(TenthsOfBytes(b, UnitsOfBytes[j].bytes))

BelowEveryByteUnit(b) ==
    \A i \in 1..Len(UnitsOfBytes) : ~Whole(TenthsOfBytes(b, UnitsOfBytes[i].bytes))

\* the annotated sizes of the topic that are integers from 0 on
Sizes ==
    {key \in ByteKeys \cap Reconciled :
        Val(key) # InfoOf(key).infiniteValue /\ ~Parsed(key).neg}

\* below 2^50 bytes b / unit is a float64 and the rounding of its product
\* by 10, a relative error of 2^-53, moves it by less than the 2 / unit
\* that separate a size from the nearest tie that is not a whole number of
\* bytes
ExactSizes ==
    {key \in Sizes : ~NatLe(PowerOf2(mantissaBits - 3), Parsed(key).mag)}

SizeComment(key, phrase) == <<"#", " ">> \o InfoOf(key).baseComment \o <<" ">> \o phrase

\* the comment of the size gives it in the largest unit among GB, MB, KB
\* (powers of 1024) in which it rounds, half-up to one decimal, to 1 or
\* more, and gives the exact count in B when it rounds to less than 1 in
\* each of them
InLargestUnitOfBytes(key) ==
    /\ \A i \in 1..Len(UnitsOfBytes) :
          LargestUnitOfBytes(Parsed(key), i)
              => Wants(key, SizeComment(key,
                     FormatTenths(TenthsOfBytes(Parsed(key), UnitsOfBytes[i].bytes))
                         \o UnitsOfBytes[i].name))
    /\ BelowEveryByteUnit(Parsed(key))
          => Wants(key, SizeComment(key, IntText(Parsed(key)) \o <<"B">>))

\* C15, as stated: the comment of every size of b >= 0 bytes gives b / unit
\* rounded to one decimal in the largest unit in which it rounds to 1 or
\* more, or the exact count in B.
C15_AsStated == Reconciliation => \A key \in Sizes : InLargestUnitOfBytes(key)

\* C15, amended: the comment of a size of b bytes, 0 <= b < 2^50, gives
\* b / unit rounded half-up to one decimal in the largest unit among GB, MB,
\* KB in which it rounds to 1 or more, or the exact count in B when it
\* rounds to less than 1 in each of them.
C15_LargestByteUnitOrBytes ==
    Reconciliation => \A key \in ExactSizes : InLargestUnitOfBytes(key)

\* 1.25 GB, halfway between two decimals, reads 1.3GB
C15_Witness ==
    /\ Reconciliation
    /\ Present("max.message.bytes") /\ Val("max.message.bytes") = <<"1", "3", "4", "2", "1", "7", "7", "2", "8", "0">>
    /\ "max.message.bytes" \in Sizes
    /\ LargestUnitOfBytes(Parsed("max.message.bytes"), 1)
    /\ \E k \in ReportIssuesOn("max.message.bytes") :
          issues[k].fix.text = <<"#", " ", "a", "l", "l", "o", "w", " ", "f", "o", "r", " ", "a", " ", "b", "a", "t", "c", "h", " ", "o", "f", " ", "r", "e", "c", "o", "r", "d", "s", " ", "m", "a", "x", "i", "m", "u", "m", " ", "1", ".", "3", "G", "B">>

----------------------------------------------------------------------------
(* Values that are not integers.                                           *)

NumericKeys == TimeKeys \cup ByteKeys

\* the Issues that report the value of the property as not an integer
ValidityIssues(key) ==
    {k \in 1..Len(issues) :
        /\ issues[k].key = key
        /\ \E i \in 1..Len(issues[k].message) :
              issues[k].message[i] \in
                  {" must have a valid integer value expressed in milliseconds",
                   " must have a valid integer value expressed in milliseconds. Use -1 for infinite retention",
                   " must have a valid integer value expressed in bytes"}}

NotAnInteger(key) ==
    Present(key) /\ ~Atoi(Val(key)).ok /\ Val(key) # InfoOf(key).infiniteValue

\* C16: in one pass of the two rules a value that is not an integer is
\* reported at most once as such, without a Fix; the comments rule reports
\* it for max.compaction.lag.ms and max.message.bytes, and emits no Issue
\* at all for retention.ms and local.retention.ms.
C16_OneValidityIssue ==
    Reconciliation =>
        \A key \in NumericKeys :
            NotAnInteger(key) =>
                /\ Cardinality(ValidityIssues(key)) <= 1
                /\ \A k \in ValidityIssues(key) : issues[k].fix = NoFix
                /\ IF InfoOf(key).issueWhenInvalid
                   THEN /\ key \in {"max.compaction.lag.ms", "max.message.bytes"}
                        /\ CommentIssuesOn(key) = ValidityIssues(key)
                        /\ CommentIssuesOn(key) # {}
                   ELSE /\ key \in {retentionTimeAttr, localRetentionTimeAttr}
                        /\ CommentIssuesOn(key) = {}

\* retention.ms = "abc" with a comment, reported by the config rule alone,
\* next to max.message.bytes = "abc", reported by the comments rule
C16_Witness ==
    /\ Reconciliation
    /\ NotAnInteger(retentionTimeAttr) /\ Bound(retentionTimeAttr).found
    /\ Cardinality(ValidityIssues(retentionTimeAttr)) = 1
    /\ \A k \in ValidityIssues(retentionTimeAttr) : issues[k].rule = configRule
    /\ NotAnInteger("max.message.bytes")
    /\ \E k \in ValidityIssues("max.message.bytes") : issues[k].rule = commentsRule

----------------------------------------------------------------------------
(* The order of the Issues of a topic.                                     *)

\* the stage of the function that emits an Issue
Stage(by) ==
    CASE by \in {"validateReplicationFactor", "reportMissingReplicationFactor"} -> 1
      [] by \in {"validateAndGetConfigAttr", "validateCompressionType"} -> 2
      [] by \in {"getAndValidateCleanupPolicyValue"} -> 3
      [] by \in {"getAndValidateRetentionTime", "validateRetentionTimeNotDefined",
                 "validateTieredStorageEnabled", "validateTieredStorageDisabled",
                 "validateLocalRetentionDefined", "validateLocalRetentionNotDefined"} -> 4
      [] by \in {"validateConfigValuesInComments", "buildDurationComment",
                 "buildDataSizeComment", "reportHumanReadableComment"} -> 5

StageOrdered(seq) ==
    \A i, j \in 1..Len(seq) : i < j => Stage(seq[i].by) <= Stage(seq[j].by)

\* C17: during a pass the Issues of the topic are only appended, and they
\* come in the order replication factor, compression type, cleanup
\* policy, retention / tiered storage / local retention, comments: no
\* Issue is emitted after an Issue of a later stage.
C17_EmissionOrder ==
    [][/\ StageOrdered(issues')
       /\ pass' = pass =>
             /\ Len(issues') >= Len(issues)
             /\ SubSeq(issues', 1, Len(issues)) = issues]_vars

\* a topic with an Issue of each of the five stages
C17_Witness ==
    /\ pc = "done" /\ ~err
    /\ \A n \in 1..5 : \E k \in 1..Len(issues) : Stage(issues[k].by) = n
    /\ \E k \in 1..Len(issues) : issues[k].rule = commentsRule

----------------------------------------------------------------------------
(* Topics of one module.                                                   *)

\* the Issues the enabled rules emit, without --fix, for a topic that is
\* alone in its module
IssuesAlone(t) ==
    LET config == IF Contains(enabled, configRule) THEN validateTopicConfig(t, build, FALSE)
                  ELSE [issues |-> <<>>, err |-> FALSE]
    IN  IF config.err \/ ~Contains(enabled, commentsRule) THEN config.issues
        ELSE config.issues \o validateTopicConfigComments(t).issues

\* C18, as stated: the Issues reported for a topic are those it gets when
\* it is alone, whatever the topics checked before it contain, also when
\* one of them fails with an error.
C18_AsStated ==
    (pc = "done" /\ ~fixing /\ enabled = <<configRule, commentsRule>>)
        => issues = IssuesAlone(topic)

----------------------------------------------------------------------------
(* A config key that is not a literal string.                              *)

MalformedKey == topic.hasConfig /\ topic.badKey

\* C19: when a key of the config of the topic is not a literal string,
\* the rule that builds the index ends with an error, and the only Issues
\* of the topic are those of its replication factor, emitted before the
\* index is built: no Issue reports the failure, the compression type, the
\* cleanup policy, the retention or a comment, and no rule runs after the
\* one that failed.
C19_MalformedKeyIsAnError ==
    MalformedKey =>
        /\ \A k \in 1..Len(issues) : Stage(issues[k].by) = 1
        /\ Contains(enabled, configRule) =>
              pc \notin {"validateCompressionType", "validateCleanupPolicyConfig",
                         "validateConfigValuesInComments", "applyConfigRuleChanges",
                         "validateTopicConfigComments", "applyCommentsRuleChanges"}
        /\ pc = "done" => err

\* the index of the topic failed, after the Issue of its replication
\* factor, on a config whose literal keys alone have Issues of later stages
C19_Witness ==
    /\ MalformedKey /\ pc = "done" /\ err
    /\ ~ConfigRuleOn(others, build, fixing).err
    /\ issues = validateReplicationFactor(topic) /\ issues # <<>>
    /\ \E k \in 1..Len(IssuesAlone([topic EXCEPT !.badKey = FALSE])) :
          Stage(IssuesAlone([topic EXCEPT !.badKey = FALSE])[k].by) > 1

----------------------------------------------------------------------------
(* The Fixes of one pass.                                                  *)

Rewrites(fix) == fix.op \in {"replace", "remove"}

Inserts(fix) == fix.op \in {"insert_after", "insert_before"}

\* the insertion point of the Fix lies strictly inside the range
InsertsInside(fix, range) ==
    LET l == IF fix.op = "insert_after" THEN fix.range.el ELSE fix.range.sl
        c == IF fix.op = "insert_after" THEN fix.range.ec ELSE fix.range.sc
    IN  PosLt(range.sl, range.sc, l, c) /\ PosLt(l, c, range.el, range.ec)

\* C20, as stated, for the Fixes one rule produces in a pass over the
\* topic: the ranges of two Fixes that replace or delete text do not
\* overlap, and no Fix inserts strictly inside a range that another Fix
\* replaces or deletes.
C20_AsStated ==
    \A i, j \in 1..Len(issues) :
        (i # j /\ issues[i].rule = issues[j].rule) =>
            /\ (Rewrites(issues[i].fix) /\ Rewrites(issues[j].fix))
                  => ~SharesText(issues[i].fix.range, issues[j].fix.range)
            /\ (Inserts(issues[i].fix) /\ Rewrites(issues[j].fix))
                  => ~InsertsInside(issues[i].fix, issues[j].fix.range)

----------------------------------------------------------------------------
(* The attributes of the topic.                                            *)

\* the config rule has looked at the replication factor of the topic
ReplicationChecked ==
    /\ Contains(enabled, configRule) /\ ConfigRuleRead
    /\ pc \notin {"Check", "validateReplicationFactor"}
    /\ ~ConfigRuleOn(others, build, fixing).err

ReplicationIssues ==
    IssuesBy({"validateReplicationFactor", "reportMissingReplicationFactor"})

\* C21: once the replication factor of a topic is checked: when the topic
\* has a name and no replication_factor, exactly one Issue is about it and
\* its Fix inserts a new line `replication_factor = 3` after the name
\* attribute; when the replication_factor is present and is not 3,
\* exactly one Issue is about it and its Fix replaces the whole attribute
\* by `replication_factor = 3`; when it is 3, no Issue is about it.
C21_ReplicationFactor ==
    ReplicationChecked =>
        /\ (~topic.hasRepl /\ topic.hasName) =>
              /\ Cardinality(ReplicationIssues) = 1
              /\ \A k \in ReplicationIssues :
                    issues[k].fix =
                        InsertTextAfter(NameRange(topic),
                                        <<"\n", "replication_factor", " = ", "3">>)
        /\ (topic.hasRepl /\ topic.replFactor # 3) =>
              /\ Cardinality(ReplicationIssues) = 1
              /\ \A k \in ReplicationIssues :
                    issues[k].fix =
                        ReplaceText(ReplRange(topic),
                                    <<"replication_factor", " = ", "3">>)
        /\ (topic.hasRepl /\ topic.replFactor = 3) => ReplicationIssues = {}

\* a named topic with a replication factor of 1 has been checked
C21_Witness ==
    /\ ReplicationChecked /\ topic.hasName /\ topic.hasRepl /\ topic.replFactor = 1
    /\ \E k \in ReplicationIssues : issues[k].fix.op = "replace"

\* the Issues of the topic from the checks that follow the replication
\* factor
LaterChecks(t) == SelectSeq(IssuesAlone(t), LAMBDA i : Stage(i.by) > 1)

\* C22: for a topic with neither a name nor a replication_factor, once
\* the replication factor is checked exactly one Issue reports the
\* missing replication factor, on the definition of the topic and with no
\* Fix; and the pass goes on: when it ends without error the Issues that
\* follow are those of the checks of the config of the topic.
C22_NoNameNoFix ==
    (ReplicationChecked /\ ~topic.hasRepl /\ ~topic.hasName) =>
        /\ Cardinality(ReplicationIssues) = 1
        /\ \A k \in ReplicationIssues :
              /\ k = 1
              /\ issues[k].fix = NoFix
              /\ issues[k].range = DefRange(topic)
              /\ issues[k].message = <<"missing replication_factor: it must be equal to '", "3", "'">>
        /\ (pc = "done" /\ ~err) =>
              SubSeq(issues, 2, Len(issues)) = LaterChecks(topic)

\* the pass over such a topic ended with the Issue of the replication
\* factor followed by an Issue about the compression type
C22_Witness ==
    /\ ReplicationChecked /\ ~topic.hasRepl /\ ~topic.hasName /\ pc = "done" /\ ~err
    /\ Len(issues) > 1 /\ issues[1].fix = NoFix
    /\ \E k \in 2..Len(issues) : issues[k].by = "validateCompressionType"

\* the config rule has looked at the compression type of the topic
CompressionChecked ==
    /\ Contains(enabled, configRule) /\ ConfigRuleRead
    /\ topic.hasConfig /\ ~MalformedKey
    /\ ~ConfigRuleOn(others, build, fixing).err
    /\ pc \notin {"Check", "validateReplicationFactor", "validateAndGetConfigAttr",
                  "constructConfigKeyToPairMap", "validateCompressionType"}

CompressionIssues == IssuesBy({"validateCompressionType"})

\* C23: once the compression type of a topic is checked: when the config
\* has no compression.type, exactly one Issue is about it and its Fix
\* inserts a new line `"compression.type" = "zstd"` after the opening brace
\* of the config; when the value is not zstd, exactly one Issue is about
\* it and its Fix replaces the value, and nothing else, by "zstd"; when
\* the value is zstd no Issue is about it.
C23_CompressionType ==
    CompressionChecked =>
        /\ ~Present("compression.type") =>
              /\ Cardinality(CompressionIssues) = 1
              /\ \A k \in CompressionIssues :
                    issues[k].fix =
                        InsertTextAfter(ConfigStartRange(topic),
                            <<"\n", "\"", "compression.type", "\" = \"">>
                                \o <<"z", "s", "t", "d">> \o <<"\"">>)
        /\ (Present("compression.type") /\ Val("compression.type") # <<"z", "s", "t", "d">>) =>
              /\ Cardinality(CompressionIssues) = 1
              /\ \A k \in CompressionIssues :
                    issues[k].fix =
                        ReplaceText(ValRangeOf(topic, LineIdx("compression.type")),
                                    <<"\"">> \o <<"z", "s", "t", "d">> \o <<"\"">>)
        /\ (Present("compression.type") /\ Val("compression.type") = <<"z", "s", "t", "d">>) =>
              CompressionIssues = {}

\* the value gzip of a topic drew the Issue that replaces it
C23_Witness ==
    /\ CompressionChecked
    /\ Present("compression.type") /\ Val("compression.type") = <<"g", "z", "i", "p">>
    /\ \E k \in CompressionIssues : issues[k].fix.op = "replace"

\* a config without compression.type drew the Issue that inserts it
C23_WitnessAbsent ==
    /\ CompressionChecked /\ ~Present("compression.type")
    /\ \E k \in CompressionIssues : issues[k].fix.op = "insert_after"

MissingConfigIssues == IssuesBy({"validateAndGetConfigAttr"})

\* C24: for a topic without a config attribute, once the attribute is
\* looked for: exactly one Issue reports the missing config attribute, on
\* the definition of the topic and with no Fix; every other Issue of the
\* topic is about its replication factor, and these are the Issues the
\* topic gets when it has a config; no check of the config is entered.
C24_MissingConfig ==
    (ReplicationChecked /\ ~topic.hasConfig /\ pc # "validateAndGetConfigAttr") =>
        /\ Cardinality(MissingConfigIssues) = 1
        /\ \A k \in MissingConfigIssues :
              /\ issues[k].fix = NoFix
              /\ issues[k].range = DefRange(topic)
              /\ issues[k].message = <<"missing config attribute: the topic configuration must be specified in a config attribute">>
        /\ \A k \in 1..Len(issues) :
              k \in MissingConfigIssues \cup ReplicationIssues
        /\ SelectSeq(issues, LAMBDA i : Stage(i.by) = 1)
              = validateReplicationFactor([topic EXCEPT !.hasConfig = TRUE,
                                                        !.config = GoodConfig])
        /\ pc \in {"applyConfigRuleChanges", "validateTopicConfigComments", "done"}
        /\ pc = "done" => ~err

\* both rules are done with a topic that has neither a replication
\* factor nor a config
C24_Witness ==
    /\ ReplicationChecked /\ ~topic.hasConfig /\ ~topic.hasRepl /\ pc = "done"
    /\ enabled = <<configRule, commentsRule>>
    /\ Len(issues) = 2 /\ issues[2].by = "validateAndGetConfigAttr"

----------------------------------------------------------------------------
(* The text after the Fixes of the config rule.                            *)

\* the line of the first property `key` of a topic
KeyAt(t, key) ==
    CHOOSE i \in 1..Len(t.config) :
        /\ t.config[i].kind = "prop" /\ t.config[i].key = key
        /\ \A j \in 1..(i - 1) : ~(t.config[j].kind = "prop" /\ t.config[j].key = key)

\* the Fix inserts its text right after the opening brace of the config
InsertsAtConfigStart(fix) ==
    fix.op = "insert_after" /\ fix.range = ConfigStartRange(topic)

\* this step applies the changes of the config rule
ConfigRuleFixesApplied == pc = "applyConfigRuleChanges" /\ pc' # pc

\* `topic` is the text that the changes of the config rule produced in
\* this run
ConfigRuleChangesApplied ==
    /\ fixing /\ ~err /\ pc \in {"validateTopicConfigComments", "done"}
    /\ Fixable(IssuesOf(configRule, issues)) # <<>>
    /\ IssuesOf(commentsRule, issues) = <<>>

\* C25: when the Fixes of a pass of the config rule are applied and two of
\* them insert a property after the opening brace of the config, the
\* property of the Issue emitted first stands first in the new text, and
\* both stand before every line the config had; so cleanup.policy comes
\* before the retention.ms placeholder and remote.storage.enable before
\* local.retention.ms.
C25_InsertedInEmissionOrder ==
    [][ConfigRuleFixesApplied =>
          \A i, j \in 1..Len(issues) :
              (/\ i < j
               /\ issues[i].rule = configRule /\ issues[j].rule = configRule
               /\ InsertsAtConfigStart(issues[i].fix)
               /\ InsertsAtConfigStart(issues[j].fix)) =>
                  /\ KeyAt(topic', issues[i].key) < KeyAt(topic', issues[j].key)
                  /\ KeyAt(topic', issues[j].key)
                        <= Len(topic'.config) - Len(topic.config)]_vars

\* the config starts with the default cleanup.policy and then the
\* placeholder of retention.ms, both inserted by the Fixes of the last pass
C25_Witness ==
    /\ ConfigRuleChangesApplied
    /\ Len(topic.config) >= 3
    /\ topic.config[1].key = "cleanup.policy" /\ topic.config[1].val = <<"d", "e", "l", "e", "t", "e">>
    /\ topic.config[2].key = "retention.ms" /\ topic.config[2].val = <<"?", "?", "?">>
    /\ \E k \in 1..Len(issues) : issues[k].by = "getAndValidateRetentionTime"

\* the config starts with remote.storage.enable, then the comment and the
\* default of local.retention.ms, inserted by the Fixes of the last pass
C25_WitnessTiered ==
    /\ ConfigRuleChangesApplied
    /\ Len(topic.config) >= 4
    /\ topic.config[1].key = "remote.storage.enable" /\ topic.config[1].val = <<"t", "r", "u", "e">>
    /\ topic.config[2] = CommentLine(<<"#", " ", "k", "e", "e", "p", " ", "d", "a", "t", "a", " ", "i", "n", " ", "h", "o", "t", " ", "s", "t", "o", "r", "a", "g", "e", " ", "f", "o", "r", " ", "1", " ", "d", "a", "y">> \o <<"\n">>)
    /\ topic.config[3].key = "local.retention.ms" /\ topic.config[3].val = <<"8", "6", "4", "0", "0", "0", "0", "0">>
    /\ \E k \in 1..Len(issues) : issues[k].by = "validateLocalRetentionDefined"

----------------------------------------------------------------------------
(* The retention rule and the comments rule.                               *)

\* C26, as stated: whenever the retention.ms of a topic is an integer that
\* isInfiniteRetention of the retention rule holds of, the canonical
\* comment the comments rule computes for it is "# keep data forever".
C26_AsStated ==
    (Reconciliation /\ Parseable("retention.ms")
       /\ isInfiniteRetention(Atoi(Val("retention.ms")).val)) =>
          Canonical("retention.ms") = <<"#", " ", "k", "e", "e", "p", " ", "d", "a", "t", "a", " ", "f", "o", "r", "e", "v", "e", "r">>

\* the config rule has run again on the text its own Fixes produced
ConfigRuleRerun ==
    /\ pass > 1 /\ ~err /\ ConfigRuleEnded
    /\ IssuesOf(configRule, applied) # <<>>

\* C27: when all the Fixes of a run of the config rule are applied and
\* the config rule runs again on the result, none of its Issues carries a
\* Fix; the Issues that remain report a retention.ms or a
\* local.retention.ms that is not an integer, a cleanup.policy that is not
\* valid, a missing config, or a replication factor missing from a topic
\* without name.
C27_FixConvergence ==
    ConfigRuleRerun =>
        \A k \in ConfigRuleIssues :
            /\ issues[k].fix = NoFix
            /\ \/ /\ issues[k].by = "getAndValidateRetentionTime"
                  /\ ~Parseable("retention.ms")
               \/ /\ issues[k].by = "validateLocalRetentionDefined"
                  /\ ~Parseable("local.retention.ms")
               \/ issues[k].by = "getAndValidateCleanupPolicyValue"
               \/ issues[k].by = "validateAndGetConfigAttr" /\ ~topic.hasConfig
               \/ issues[k].by = "reportMissingReplicationFactor" /\ ~topic.hasName

\* the Fixes of a topic without cleanup.policy and retention.ms were
\* applied and the config rule ran again: the placeholder of retention.ms
\* draws the Issue that carries no Fix
C27_Witness ==
    /\ ConfigRuleRerun
    /\ Present("retention.ms") /\ Val("retention.ms") = <<"?", "?", "?">>
    /\ Present("cleanup.policy")
    /\ \E k \in ConfigRuleIssues : issues[k].by = "getAndValidateRetentionTime"

\* the Fixes that enable tiered storage and insert the default local
\* retention were applied, and the config rule has no Issue left
C27_WitnessClean ==
    /\ ConfigRuleRerun /\ ConfigRuleIssues = {}
    /\ Len(topic.config) >= 3
    /\ topic.config[1].key = "remote.storage.enable"
    /\ topic.config[3].key = "local.retention.ms"

\* the text of the topic holds what the Fix for a missing
\* local.retention.ms inserts: its comment, then the property with the
\* default value
LocalRetentionInserted ==
    /\ fixing
    /\ \E k \in ConfigRuleIssues :
          /\ issues[k].by = "validateLocalRetentionDefined"
          /\ issues[k].fix.op = "insert_after"
    /\ Present("local.retention.ms")
    /\ Val("local.retention.ms") = <<"8", "6", "4", "0", "0", "0", "0", "0">>
    /\ LineIdx("local.retention.ms") > 1
    /\ topic.config[LineIdx("local.retention.ms") - 1]
          = CommentLine(<<"#", " ", "k", "e", "e", "p", " ", "d", "a", "t", "a", " ", "i", "n", " ", "h", "o", "t", " ", "s", "t", "o", "r", "a", "g", "e", " ", "f", "o", "r", " ", "1", " ", "d", "a", "y", "\n">>)

\* C28, as stated: on the text that the Fix for a missing
\* local.retention.ms produced, the comments rule, which runs after the
\* changes of the config rule are applied, raises no Issue about
\* local.retention.ms.
C28_AsStated ==
    (Reconciliation /\ LocalRetentionInserted) =>
        CommentIssuesOn("local.retention.ms") = {}

\* the Issues whose Fix inserts or replaces the comment of a property
CommentFixesOn(key) ==
    {k \in 1..Len(issues) :
        /\ issues[k].key = key
        /\ issues[k].by \in {"validateConfigValuesInComments", "reportHumanReadableComment"}
        /\ issues[k].fix.op \in {"insert_before", "insert_after", "replace"}}

\* C29, as stated: in a pass over a topic, a property that an Issue of the
\* config rule removes (retention.ms of a compacted topic, local.retention.ms
\* when tiered storage must be off) has no Issue whose Fix inserts or
\* replaces its comment.
C29_AsStated ==
    \A key \in {"retention.ms", "local.retention.ms"} :
        (ConfigRuleRead /\ Present(key) /\ \E k \in ConfigRuleIssues : DeletesPair(k, key))
            => CommentFixesOn(key) = {}

----------------------------------------------------------------------------
(* One policy Issue for each property.                                     *)

PolicyKeys ==
    {"replication_factor", "compression.type", "cleanup.policy", "retention.ms",
     "remote.storage.enable", "local.retention.ms"}

\* the Issues of the config rule about the value or the presence of a
\* property: all of them but the ones about the comment of retention.ms
PolicyIssuesOn(key) ==
    {k \in ConfigRuleIssues :
        issues[k].key = key /\ issues[k].by # "validateConfigValuesInComments"}

\* the Fix inserts the property `key`
InsertsProperty(fix, key) ==
    /\ fix.op = "insert_after"
    /\ \E i \in 1..Len(fix.text) : fix.text[i] = key

\* C30: in a pass of the config rule each of replication_factor,
\* compression.type, cleanup.policy, retention.ms, remote.storage.enable and
\* local.retention.ms is the subject of at most one policy Issue; no pass
\* holds a Fix that enables remote.storage.enable and one that removes it,
\* nor a Fix that inserts local.retention.ms or retention.ms and one that
\* removes it.
C30_OnePolicyIssuePerKey ==
    /\ \A key \in PolicyKeys : Cardinality(PolicyIssuesOn(key)) <= 1
    /\ \A k, l \in ConfigRuleIssues :
          /\ ~(/\ issues[k].key = "remote.storage.enable"
               /\ issues[k].fix.op \in {"insert_after", "replace"}
               /\ issues[l].key = "remote.storage.enable"
               /\ issues[l].fix.op = "remove")
          /\ \A key \in {"local.retention.ms", "retention.ms"} :
                ~(InsertsProperty(issues[k].fix, key) /\ issues[l].fix.op = "remove"
                  /\ issues[l].key = key)

\* a pass whose Issues replace the value of remote.storage.enable and
\* insert local.retention.ms, one Issue each
C30_Witness ==
    /\ pc = "done" /\ ~err
    /\ \E k \in PolicyIssuesOn("remote.storage.enable") : issues[k].fix.op = "replace"
    /\ \E k \in PolicyIssuesOn("local.retention.ms") :
          InsertsProperty(issues[k].fix, "local.retention.ms")

\* a pass whose Issues remove remote.storage.enable, local.retention.ms and
\* retention.ms from a compacted topic, one Issue each
C30_WitnessCompact ==
    /\ pc = "done" /\ ~err
    /\ \A key \in {"remote.storage.enable", "local.retention.ms", "retention.ms"} :
          \E k \in PolicyIssuesOn(key) : issues[k].fix.op = "remove"

====
